---- MODULE Spec2Model ----
(***************************************************************************)
(* Algorithm visualizer: the sorting, pathfinding and graph traversal      *)
(* components, the page controller that drives them and the timers they    *)
(* schedule.                                                               *)
(*                                                                         *)
(* Indices are 0-based as in the source; At/Put convert to TLA+ sequences. *)
(***************************************************************************)
EXTENDS Integers, Sequences, FiniteSets, TLC

VARIABLES
    home,        \* Home: selectedCategory, selectedAlgorithm, speed, isPlaying, isReset
    sorting,     \* SortingVisualizer: array, isSorting, isSorted and its two refs
    pathfinding, \* PathfindingVisualizer: grid, mouse flags, startNode, endNode, run flags, ref
    graph,       \* GraphTraversalVisualizer: nodes, selection, startNode, run flags, ref
    timers,      \* pending setTimeout / requestAnimationFrame callbacks of the mounted visualizer
    obs,         \* observer: animations applied and runs started since the last reset, completion toasts
    recAlg,      \* recorder check: the sorting algorithm under replay
    recInput,    \* recorder check: the input array (ArrayBar sequence)
    recAnims,    \* recorder check: the recorded animations
    recPos,      \* recorder check: next animation to apply (0-based), -1 before recording
    recArr,      \* recorder check: array after applying animations[0..recPos-1]
    recSO,       \* recorder check: array after applying only the swap/overwrite ones
    recThrew,    \* recorder check: the apply switch threw a TypeError
    pathRec,     \* recorder check: a grid with start and end, and what dijkstra and aStar return on it
    graphRec,    \* recorder check: a graph with a start node, and what runBFS and runDFS return on it
    speedRec,    \* speed check: one dataset played back at several speeds side by side
    genRec       \* generator check: generateRandomGraph, statement by statement

recVars == <<recAlg, recInput, recAnims, recPos, recArr, recSO, recThrew, pathRec, graphRec,
             speedRec, genRec>>

uiVars == <<home, sorting, pathfinding, graph, timers, obs>>

vars == <<home, sorting, pathfinding, graph, timers, obs,
          recAlg, recInput, recAnims, recPos, recArr, recSO, recThrew, pathRec, graphRec,
          speedRec, genRec>>

----------------------------------------------------------------------------
(* Bounds of the model *)

MaxLen == 3
MaxVal == 3
\* runs started between two resets
MaxRuns == 2
\* callbacks pending when a run may still be started
MaxPending == 2
MaxStale == 0
MaxEdits == 1
\* the pathfinding grid (20 x 50 in the source)
Rows == 1
Cols == 3
\* nodes of a generated graph (15 in the source)
NumNodes == 3
\* canvas positions a node can be at or be dragged to: 0..MaxX
MaxX == 1
\* the grids the pathfinding recorders are checked on, and the walls drawn on them
GridRows == 3
GridCols == 3
MaxWalls == 3
\* the graphs runBFS and runDFS are checked on
MaxNodes == 4
MaxEdges == 4

----------------------------------------------------------------------------
(* JavaScript array helpers *)

\* the value of a property that is absent
Undefined == -1

\* an array slot that was never written (a hole reads as undefined)
Hole == [value |-> Undefined, state |-> "undefined"]

InRange(arr, i) == i >= 0 /\ i < Len(arr)

\* arr[i]: undefined outside the array
At(arr, i) == IF InRange(arr, i) THEN arr[i + 1] ELSE Hole

RECURSIVE Holes(_)
Holes(n) == IF n <= 0 THEN <<>> ELSE <<Hole>> \o Holes(n - 1)

\* arr[i] = x: inside the array replaces, past the end grows the array (leaving
\* holes), a negative index sets a property that is no element
Put(arr, i, x) ==
    IF InRange(arr, i) THEN [arr EXCEPT ![i + 1] = x]
    ELSE IF i >= Len(arr) THEN arr \o Holes(i - Len(arr)) \o <<x>>
    ELSE arr

\* arr.slice(from, to)
Slice(arr, from, to) == SubSeq(arr, from + 1, to)

Max(a, b) == IF a >= b THEN a ELSE b

----------------------------------------------------------------------------
(* Sorting visualizer: ArrayBar and the animation records *)

Bar(v) == [value |-> v, state |-> "default"]

\* { type, indices } / { type, index } / { type, index, value }: one record shape,
\* a single index is carried as a one-element indices list, value is Undefined
\* for every type but "overwrite"
Ev(type, indices) == [type |-> type, indices |-> indices, value |-> Undefined]
EvOverwrite(index, value) == [type |-> "overwrite", indices |-> <<index>>, value |-> value]

\* a swap that forgets the temporary: both slots end with the value of b
SwapAtNoTemp(arr, a, b) == Put(Put(arr, a, At(arr, b)), b, At(Put(arr, a, At(arr, b)), a))

\* const temp = arr[a]; arr[a] = arr[b]; arr[b] = temp
SwapAt(arr, a, b) == Put(Put(arr, a, At(arr, b)), b, At(arr, a))

----------------------------------------------------------------------------
(* bubbleSort *)

RECURSIVE bubbleInner(_, _, _, _, _)
bubbleInner(arr, anims, n, i, j) ==
    IF j < n - i - 1
    THEN LET a1  == Append(anims, Ev("compare", <<j, j + 1>>))
             gt  == At(arr, j).value > At(arr, j + 1).value
             a2  == IF gt THEN Append(a1, Ev("swap", <<j, j + 1>>)) ELSE a1
             ar2 == IF gt THEN SwapAt(arr, j, j + 1) ELSE arr
             a3  == Append(a2, Ev("reset", <<j, j + 1>>))
         IN  bubbleInner(ar2, a3, n, i, j + 1)
    ELSE [arr |-> arr, anims |-> anims]

RECURSIVE bubbleOuter(_, _, _, _)
bubbleOuter(arr, anims, n, i) ==
    IF i < n
    THEN LET next(r) ==
                 bubbleOuter(r.arr, Append(r.anims, Ev("sorted", <<n - i - 1>>)), n, i + 1)
         IN  next(bubbleInner(arr, anims, n, i, 0))
    ELSE [arr |-> arr, anims |-> anims]

bubbleSort(array) == bubbleOuter(array, <<>>, Len(array), 0)

----------------------------------------------------------------------------
(* mergeSort *)

RECURSIVE mergeBoth(_, _, _, _, _, _, _, _, _)
mergeBoth(arr, anims, left, right, start, mid, i, j, k) ==
    IF i < Len(left) /\ j < Len(right)
    THEN LET a1 == Append(anims, Ev("compare", <<start + i, mid + 1 + j>>))
             le == At(left, i).value <= At(right, j).value
             a2 == Append(a1, EvOverwrite(k, IF le THEN At(left, i).value
                                                  ELSE At(right, j).value))
             ar == Put(arr, k, IF le THEN At(left, i) ELSE At(right, j))
             i2 == IF le THEN i + 1 ELSE i
             j2 == IF le THEN j ELSE j + 1
             a3 == Append(a2, Ev("reset", <<start + i2 - 1, mid + 1 + j2 - 1>>))
         IN  mergeBoth(ar, a3, left, right, start, mid, i2, j2, k + 1)
    ELSE [arr |-> arr, anims |-> anims, i |-> i, j |-> j, k |-> k]

RECURSIVE mergeRest(_, _, _, _, _)
mergeRest(arr, anims, side, i, k) ==
    IF i < Len(side)
    THEN mergeRest(Put(arr, k, At(side, i)),
                   Append(anims, EvOverwrite(k, At(side, i).value)),
                   side, i + 1, k + 1)
    ELSE [arr |-> arr, anims |-> anims, k |-> k]

merge(arr, start, mid, end, anims) ==
    LET left  == Slice(arr, start, mid + 1)
        right == Slice(arr, mid + 1, end + 1)
        \* the three while loops, each continuing from the state the one before left
        result(r)       == [arr |-> r.arr, anims |-> r.anims]
        restRight(b, l) == result(mergeRest(l.arr, l.anims, right, b.j, l.k))
        restLeft(b)     == restRight(b, mergeRest(b.arr, b.anims, left, b.i, b.k))
    IN  restLeft(mergeBoth(arr, anims, left, right, start, mid, 0, 0, start))

RECURSIVE mergeSortHelper(_, _, _, _)
mergeSortHelper(arr, start, end, anims) ==
    IF start >= end THEN [arr |-> arr, anims |-> anims]
    ELSE LET mid == (start + end) \div 2
             l   == mergeSortHelper(arr, start, mid, anims)
             r   == mergeSortHelper(l.arr, mid + 1, end, l.anims)
         IN  merge(r.arr, start, mid, end, r.anims)

RECURSIVE markAllSorted(_, _, _)
markAllSorted(anims, n, i) ==
    IF i < n THEN markAllSorted(Append(anims, Ev("sorted", <<i>>)), n, i + 1)
    ELSE anims

\* after the recursion every index is marked sorted
allSorted(r) == [arr |-> r.arr, anims |-> markAllSorted(r.anims, Len(r.arr), 0)]

mergeSort(array) == allSorted(mergeSortHelper(array, 0, Len(array) - 1, <<>>))

----------------------------------------------------------------------------
(* quickSort *)

\* the loop of partition with <= in place of < in the comparison with the pivot
RECURSIVE partitionLoopLeq(_, _, _, _, _, _)
partitionLoopLeq(arr, anims, high, pivotValue, i, j) ==
    IF j < high
    THEN LET a1 == Append(anims, Ev("compare", <<j, high>>))
             lt == At(arr, j).value <= pivotValue
             i2 == IF lt THEN i + 1 ELSE i
             a2 == IF lt THEN Append(a1, Ev("swap", <<i2, j>>)) ELSE a1
             ar == IF lt THEN SwapAt(arr, i2, j) ELSE arr
             a3 == Append(a2, Ev("reset", <<j, high>>))
         IN  partitionLoopLeq(ar, a3, high, pivotValue, i2, j + 1)
    ELSE [arr |-> arr, anims |-> anims, i |-> i]

RECURSIVE partitionLoop(_, _, _, _, _, _)
partitionLoop(arr, anims, high, pivotValue, i, j) ==
    IF j < high
    THEN LET a1 == Append(anims, Ev("compare", <<j, high>>))
             lt == At(arr, j).value < pivotValue
             i2 == IF lt THEN i + 1 ELSE i
             a2 == IF lt THEN Append(a1, Ev("swap", <<i2, j>>)) ELSE a1
             ar == IF lt THEN SwapAt(arr, i2, j) ELSE arr
             a3 == Append(a2, Ev("reset", <<j, high>>))
         IN  partitionLoop(ar, a3, high, pivotValue, i2, j + 1)
    ELSE [arr |-> arr, anims |-> anims, i |-> i]

partition(arr, low, high, anims) ==
    LET pivotValue == At(arr, high).value
        a0 == Append(anims, Ev("pivot", <<high>>))
        \* after the loop l: the pivot goes to its final position l.i + 1
        place(l) ==
            [arr |-> SwapAt(l.arr, l.i + 1, high),
             anims |-> l.anims \o <<Ev("swap", <<l.i + 1, high>>),
                                    Ev("sorted", <<l.i + 1>>),
                                    Ev("reset-pivot", <<high>>)>>,
             pivotIndex |-> l.i + 1]
    IN  place(partitionLoop(arr, a0, high, pivotValue, low - 1, low))

RECURSIVE quickSortHelper(_, _, _, _)
quickSortHelper(arr, low, high, anims) ==
    IF low < high
    THEN LET right(p, l) == quickSortHelper(l.arr, p.pivotIndex + 1, high, l.anims)
             left(p) == right(p, quickSortHelper(p.arr, low, p.pivotIndex - 1, p.anims))
         IN  left(partition(arr, low, high, anims))
    ELSE IF low = high
    THEN [arr |-> arr, anims |-> Append(anims, Ev("sorted", <<low>>))]
    ELSE [arr |-> arr, anims |-> anims]

quickSort(array) == allSorted(quickSortHelper(array, 0, Len(array) - 1, <<>>))

----------------------------------------------------------------------------
(* insertionSort *)

RECURSIVE insertionShift(_, _, _, _, _)
insertionShift(arr, anims, key, i, j) ==
    IF j >= 0 /\ At(arr, j).value > key
    THEN LET a1 == Append(anims, Ev("swap", <<j, j + 1>>))
             ar == Put(arr, j + 1, At(arr, j))
             j2 == j - 1
             a2 == IF j2 >= 0 THEN Append(a1, Ev("compare", <<i, j2>>)) ELSE a1
         IN  insertionShift(ar, a2, key, i, j2)
    ELSE [arr |-> arr, anims |-> anims, j |-> j]

RECURSIVE insertionOuter(_, _, _, _)
insertionOuter(arr, anims, n, i) ==
    IF i < n
    THEN LET key == At(arr, i).value
             a1  == Append(anims, Ev("compare", <<i, i - 1>>))
             \* after the while loop s: the key is put at s.j + 1
             next(s) ==
                 insertionOuter(Put(s.arr, s.j + 1, Bar(key)),
                                s.anims \o <<Ev("reset", <<i, Max(0, s.j)>>),
                                             Ev("sorted", <<s.j + 1>>)>>,
                                n, i + 1)
         IN  next(insertionShift(arr, a1, key, i, i - 1))
    ELSE [arr |-> arr, anims |-> anims]

insertionSort(array) ==
    insertionOuter(array, <<Ev("sorted", <<0>>)>>, Len(array), 1)

----------------------------------------------------------------------------
(* startSorting: the algorithm switch *)

SortAlgorithms == {"bubbleSort", "mergeSort", "quickSort", "insertionSort"}

RecordSort(algorithm, array) ==
    CASE algorithm = "bubbleSort"    -> bubbleSort(array)
      [] algorithm = "mergeSort"     -> mergeSort(array)
      [] algorithm = "quickSort"     -> quickSort(array)
      [] algorithm = "insertionSort" -> insertionSort(array)
      [] OTHER                       -> bubbleSort(array)

----------------------------------------------------------------------------
(* animateSort: the switch that applies one animation to the array *)

IsUndefined(bar) == bar = Hole

SetState(arr, index, st) == Put(arr, index, [At(arr, index) EXCEPT !.state = st])

\* case "reset": reading .state of an absent element throws, and the updater
\* then returns nothing (the array is left as it was)
RECURSIVE applyReset(_, _, _)
applyReset(arr, indices, n) ==
    IF n > Len(indices) THEN [arr |-> arr, threw |-> FALSE]
    ELSE LET index == indices[n] IN
         IF IsUndefined(At(arr, index)) THEN [arr |-> arr, threw |-> TRUE]
         ELSE applyReset(IF At(arr, index).state = "comparing"
                         THEN SetState(arr, index, "default") ELSE arr,
                         indices, n + 1)

RECURSIVE applySorted(_, _, _)
applySorted(arr, indices, n) ==
    IF n > Len(indices) THEN arr
    ELSE applySorted(SetState(arr, indices[n], "sorted"), indices, n + 1)

applyAnimation(prevArray, animation) ==
    LET ix == animation.indices IN
    CASE animation.type = "compare" ->
            [arr |-> SetState(SetState(prevArray, ix[1], "comparing"), ix[2], "comparing"),
             threw |-> FALSE]
      [] animation.type = "swap" ->
            [arr |-> SwapAt(prevArray, ix[1], ix[2]), threw |-> FALSE]
      [] animation.type = "reset" ->
            LET r == applyReset(prevArray, ix, 1)
            IN  [arr |-> IF r.threw THEN prevArray ELSE r.arr, threw |-> r.threw]
      [] animation.type = "sorted" ->
            [arr |-> applySorted(prevArray, ix, 1), threw |-> FALSE]
      [] animation.type = "pivot" ->
            [arr |-> SetState(prevArray, ix[1], "pivot"), threw |-> FALSE]
      [] animation.type = "reset-pivot" ->
            IF IsUndefined(At(prevArray, ix[1])) THEN [arr |-> prevArray, threw |-> TRUE]
            ELSE [arr |-> IF At(prevArray, ix[1]).state = "pivot"
                          THEN SetState(prevArray, ix[1], "default") ELSE prevArray,
                  threw |-> FALSE]
      [] animation.type = "overwrite" ->
            [arr |-> Put(prevArray, ix[1], [value |-> animation.value, state |-> "comparing"]),
             threw |-> FALSE]
      [] OTHER -> [arr |-> prevArray, threw |-> FALSE]

----------------------------------------------------------------------------
(* Home: the page controller *)

Categories == {"sorting", "pathfinding", "graphTraversal"}

InitialSpeed == 50
MinSpeed == 1
MaxSpeed == 100

\* slider positions the model moves the slider to
SpeedChoices == {InitialSpeed, MaxSpeed}

HomeInitial ==
    [selectedCategory |-> "sorting", selectedAlgorithm |-> "bubbleSort",
     speed |-> InitialSpeed, isPlaying |-> FALSE, isReset |-> TRUE]

DefaultAlgorithm(category) ==
    CASE category = "sorting"        -> "bubbleSort"
      [] category = "pathfinding"    -> "dijkstra"
      [] category = "graphTraversal" -> "bfs"

handleCategoryChange(h, category) ==
    [h EXCEPT !.selectedCategory = category, !.isReset = TRUE, !.isPlaying = FALSE,
              !.selectedAlgorithm = DefaultAlgorithm(category)]

handleAlgorithmChange(h, algorithm) ==
    [h EXCEPT !.selectedAlgorithm = algorithm, !.isReset = TRUE, !.isPlaying = FALSE]

\* handlePlayPause without its first line
handlePlayPauseKeepingReset(h) == [h EXCEPT !.isPlaying = ~h.isPlaying]

handlePlayPause(h) ==
    [h EXCEPT !.isReset = IF h.isReset THEN FALSE ELSE @, !.isPlaying = ~h.isPlaying]

handleReset(h) == [h EXCEPT !.isPlaying = FALSE, !.isReset = TRUE]

handleSpeedChange(h, value) == [h EXCEPT !.speed = value]

----------------------------------------------------------------------------
(* Timers: setTimeout / clearTimeout / requestAnimationFrame *)

\* useRef(null); a timer id is a positive number, so `if (ref.current)` is ref # Null
Null == 0

\* the observer: the events applied and the notifications shown since the last
\* reset, the runs started since then, and what the last step was: a press of
\* reset ("pressReset"), an editing input ("edit"), other user input ("user"),
\* a callback of the session ("tick"), or a callback from before the reset
\* ("reset") or the algorithm change ("change") that ended the session before;
\* edits counts the editing gestures (a press on the grid or the canvas, a new
\* graph, a resize) since the last reset
ObsInitial ==
    [applied |-> <<>>, completions |-> 0, errors |-> 0, runs |-> 0, edits |-> 0,
     last |-> "user"]

SortingInitial ==
    [array |-> <<>>, isSorting |-> FALSE, isSorted |-> FALSE,
     animationTimeoutRef |-> Null, animationFrameIdRef |-> Null]

\* the whole page as one value: the handlers below map a world to a world
World ==
    [home |-> home, sorting |-> sorting, pathfinding |-> pathfinding, graph |-> graph,
     timers |-> timers, obs |-> obs]

SetMax(S) == CHOOSE x \in S : \A y \in S : y <= x

RefsOf(n) ==
    {n.sorting.animationTimeoutRef, n.sorting.animationFrameIdRef,
     n.pathfinding.animationTimeoutRef, n.graph.animationTimeoutRef}

\* the id setTimeout / requestAnimationFrame returns: one never handed out to a
\* callback still pending or still held in a ref
NextTimerId(n) == 1 + SetMax({t.id : t \in n.timers} \cup RefsOf(n) \cup {0})

\* what a callback closes over: props and state of the render that scheduled it,
\* and (observer) the run it belongs to
Closure(c, run) ==
    [speed |-> c.home.speed, algorithm |-> c.home.selectedAlgorithm,
     isSorting |-> c.sorting.isSorting, run |-> run]

\* a pending callback; rem is the time left until it is due; stale tells (for
\* the observer) a callback scheduled before the last reset
Timer(id, kind, delay, i, list, cl) ==
    [id |-> id, kind |-> kind, rem |-> delay, i |-> i, list |-> list,
     closure |-> cl, stale |-> "no"]

IsStale(t) == t.stale # "no"

IsFrame(t) == t.kind = "sortFrame"

\* a clearTimeout that cancels nothing
clearTimeoutNothing(n, id) == n

clearTimeout(n, id) == [n EXCEPT !.timers = {t \in @ : ~(t.id = id /\ ~IsFrame(t))}]

cancelAnimationFrame(n, id) == [n EXCEPT !.timers = {t \in @ : ~(t.id = id /\ IsFrame(t))}]

\* observer: the i-th event of a phase of run `run` was applied to the visual state
Applied(phase, i, run) == [phase |-> phase, i |-> i, run |-> run]

\* toast({ title: "... Complete" })
toastComplete(n) ==
    [n EXCEPT !.obs.completions = IF @ < 2 THEN @ + 1 ELSE @]

----------------------------------------------------------------------------
(* SortingVisualizer *)

generateArray(n, newArray) ==
    [n EXCEPT !.sorting.array = newArray, !.sorting.isSorted = FALSE]

\* if (ref.current) { clearTimeout(ref.current); ref.current = null }, both refs
sortClearRefs(n) ==
    LET n1 == IF n.sorting.animationTimeoutRef # Null
              THEN [clearTimeout(n, n.sorting.animationTimeoutRef)
                      EXCEPT !.sorting.animationTimeoutRef = Null]
              ELSE n
    IN  IF n1.sorting.animationFrameIdRef # Null
        THEN [cancelAnimationFrame(n1, n1.sorting.animationFrameIdRef)
                EXCEPT !.sorting.animationFrameIdRef = Null]
        ELSE n1

pauseSorting(n) == sortClearRefs([n EXCEPT !.sorting.isSorting = FALSE])

\* animate(): cl.isSorting is the isSorting of the render whose startSorting
\* created this closure, not the current state
animate(n, cl, animations, i) ==
    IF ~cl.isSorting THEN n
    ELSE IF i = Len(animations)
    THEN toastComplete([n EXCEPT !.sorting.isSorting = FALSE, !.sorting.isSorted = TRUE])
    ELSE LET r  == applyAnimation(n.sorting.array, animations[i + 1])
             id == NextTimerId(n)
         IN  [n EXCEPT !.sorting.array = r.arr,
                       !.sorting.animationTimeoutRef = id,
                       !.timers = @ \cup {Timer(id, "sortTimeout", (MaxSpeed + 1) - cl.speed,
                                                i + 1, animations, cl)},
                       !.obs.applied = Append(@, Applied("sort", i, cl.run))]

animateSort(n, cl, animations) ==
    IF Len(animations) = 0 THEN n ELSE animate(n, cl, animations, 0)

\* c is the render the effect closed over, n the state being built
startSorting(c, n) ==
    LET n1 == [n EXCEPT !.sorting.isSorting = TRUE, !.obs.runs = @ + 1]
    IN  animateSort(n1, Closure(c, n1.obs.runs),
                    RecordSort(c.home.selectedAlgorithm, c.sorting.array).anims)

\* the cleanup of the play effect: clears, does not null the refs
sortPlayCleanup(n) ==
    LET n1 == IF n.sorting.animationTimeoutRef # Null
              THEN clearTimeout(n, n.sorting.animationTimeoutRef) ELSE n
    IN  IF n1.sorting.animationFrameIdRef # Null
        THEN cancelAnimationFrame(n1, n1.sorting.animationFrameIdRef) ELSE n1

sortResetEffect(c, n, newArray) ==
    IF c.home.isReset
    THEN [generateArray(sortClearRefs(n), newArray) EXCEPT !.sorting.isSorting = FALSE]
    ELSE n

sortPlayEffect(c, n) ==
    IF c.home.isPlaying /\ ~c.sorting.isSorting /\ ~c.sorting.isSorted
    THEN startSorting(c, n)
    ELSE IF ~c.home.isPlaying /\ c.sorting.isSorting THEN pauseSorting(n)
    ELSE n

\* the dependency lists of the reset and play effects
sortDeps(w) ==
    [mount |-> TRUE,
     reset |-> <<w.home.isReset, w.home.selectedAlgorithm>>,
     play  |-> <<w.home.isPlaying, w.sorting.isSorting, w.sorting.isSorted>>]

\* the dependencies of a component that has not rendered yet: every effect runs
NoDeps == [mount |-> FALSE, reset |-> <<>>, play |-> <<>>]

\* one commit: cleanups of the effects whose dependencies changed, then their
\* bodies in source order, all closed over the render c
sortCommit(c, last, newArray) ==
    LET playChanged  == sortDeps(c).play # last.play
        resetChanged == sortDeps(c).reset # last.reset
        n1 == IF playChanged THEN sortPlayCleanup(c) ELSE c
        n2 == IF resetChanged THEN sortResetEffect(c, n1, newArray) ELSE n1
    IN  IF playChanged THEN sortPlayEffect(c, n2) ELSE n2

\* render and commit until no effect sets state any more
RECURSIVE sortSettle(_, _, _)
sortSettle(w, last, newArray) ==
    LET again(n) == IF n = w THEN w ELSE sortSettle(n, sortDeps(w), newArray)
    IN  again(sortCommit(w, last, newArray))

\* whether the commit after handler result w runs generateArray
sortGenerates(w, last) == w.home.isReset /\ sortDeps(w).reset # last.reset

\* window resize
handleResize(n, newArray) ==
    IF ~n.sorting.isSorting THEN generateArray(n, newArray) ELSE n

\* the callbacks of the sorting visualizer
sortFire(n, t) ==
    IF t.kind = "sortTimeout"
    THEN LET id == NextTimerId(n)
         IN  [n EXCEPT !.sorting.animationFrameIdRef = id,
                       !.timers = @ \cup {Timer(id, "sortFrame", 0, t.i, t.list, t.closure)}]
    ELSE animate(n, t.closure, t.list, t.i)

----------------------------------------------------------------------------
(* PathfindingVisualizer: the grid *)

Pos == (0..(Rows - 1)) \X (0..(Cols - 1))

\* Number.POSITIVE_INFINITY
Infinity == 1000000

\* previousNode: null
NoNode == <<>>

\* useState({ row: 10, col: 15 }) / ({ row: 10, col: 35 }) on the 20 x 50 grid,
\* kept in proportion on the Rows x Cols grid of the model
InitialStartNode == <<Rows \div 2, (3 * Cols) \div 10>>
InitialEndNode == <<Rows \div 2, (7 * Cols) \div 10>>

PathfindingInitial ==
    [grid |-> <<>>, mouseIsPressed |-> FALSE, isMovingStart |-> FALSE,
     isMovingEnd |-> FALSE, startNode |-> InitialStartNode, endNode |-> InitialEndNode,
     isVisualizing |-> FALSE, isPathFound |-> FALSE, animationTimeoutRef |-> Null]

createNode(startNode, endNode, p) ==
    [type |-> IF p = startNode THEN "start" ELSE IF p = endNode THEN "end" ELSE "empty",
     distance |-> Infinity, isVisited |-> FALSE, previousNode |-> NoNode,
     f |-> 0, g |-> 0, h |-> 0]

\* c is the render whose startNode / endNode createNode closes over
initializeGrid(c, n) ==
    [n EXCEPT !.pathfinding.grid =
        [p \in Pos |-> createNode(c.pathfinding.startNode, c.pathfinding.endNode, p)]]

pathClearRef(n) ==
    IF n.pathfinding.animationTimeoutRef # Null
    THEN [clearTimeout(n, n.pathfinding.animationTimeoutRef)
            EXCEPT !.pathfinding.animationTimeoutRef = Null]
    ELSE n

resetGrid(c, n) ==
    [initializeGrid(c, pathClearRef(n))
        EXCEPT !.pathfinding.isVisualizing = FALSE, !.pathfinding.isPathFound = FALSE]

toggleWall(grid, p) ==
    IF grid[p].type # "start" /\ grid[p].type # "end"
    THEN [grid EXCEPT ![p].type = IF @ = "wall" THEN "empty" ELSE "wall"]
    ELSE grid

moveStartNode(grid, startNode, p) ==
    LET g1 == [grid EXCEPT ![startNode].type = "empty"]
    IN  IF g1[p].type # "end" THEN [g1 EXCEPT ![p].type = "start"] ELSE g1

moveEndNode(grid, endNode, p) ==
    LET g1 == [grid EXCEPT ![endNode].type = "empty"]
    IN  IF g1[p].type # "start" THEN [g1 EXCEPT ![p].type = "end"] ELSE g1

\* handleMouseDown without its first line
handleMouseDownUnguarded(n, p) ==
    LET n1 == [n EXCEPT !.pathfinding.mouseIsPressed = TRUE] IN
    IF n.pathfinding.grid[p].type = "start"
    THEN [n1 EXCEPT !.pathfinding.isMovingStart = TRUE]
    ELSE IF n.pathfinding.grid[p].type = "end"
    THEN [n1 EXCEPT !.pathfinding.isMovingEnd = TRUE]
    ELSE [n1 EXCEPT !.pathfinding.grid = toggleWall(@, p)]

handleMouseDown(n, p) ==
    IF n.pathfinding.isVisualizing THEN n
    ELSE LET n1 == [n EXCEPT !.pathfinding.mouseIsPressed = TRUE] IN
         IF n.pathfinding.grid[p].type = "start"
         THEN [n1 EXCEPT !.pathfinding.isMovingStart = TRUE]
         ELSE IF n.pathfinding.grid[p].type = "end"
         THEN [n1 EXCEPT !.pathfinding.isMovingEnd = TRUE]
         ELSE [n1 EXCEPT !.pathfinding.grid = toggleWall(@, p)]

handleMouseEnter(n, p) ==
    IF ~n.pathfinding.mouseIsPressed \/ n.pathfinding.isVisualizing THEN n
    ELSE IF n.pathfinding.isMovingStart
    THEN [n EXCEPT !.pathfinding.grid = moveStartNode(@, n.pathfinding.startNode, p),
                   !.pathfinding.startNode = p]
    ELSE IF n.pathfinding.isMovingEnd
    THEN [n EXCEPT !.pathfinding.grid = moveEndNode(@, n.pathfinding.endNode, p),
                   !.pathfinding.endNode = p]
    ELSE [n EXCEPT !.pathfinding.grid = toggleWall(@, p)]

handleMouseUp(n) ==
    [n EXCEPT !.pathfinding.mouseIsPressed = FALSE, !.pathfinding.isMovingStart = FALSE,
              !.pathfinding.isMovingEnd = FALSE]

----------------------------------------------------------------------------
(* PathfindingVisualizer: dijkstra and aStar *)

\* Array.prototype.sort is stable: x goes behind every element whose key is not larger
RECURSIVE InsertByKey(_, _, _, _)
InsertByKey(sorted, x, kx, keys) ==
    IF sorted = <<>> THEN <<x>>
    ELSE IF keys[Head(sorted)] <= kx
    THEN <<Head(sorted)>> \o InsertByKey(Tail(sorted), x, kx, keys)
    ELSE <<x>> \o sorted

\* nodes.sort((a, b) => key(a) - key(b)); keys maps a position to its key
RECURSIVE SortByKey(_, _, _)
SortByKey(nodes, keys, done) ==
    IF nodes = <<>> THEN done
    ELSE SortByKey(Tail(nodes), keys, InsertByKey(done, Head(nodes), keys[Head(nodes)], keys))

\* the unvisited nodes left in the order they are in
sortNodesByDistanceUnsorted(grid, unvisitedNodes) == unvisitedNodes

sortNodesByDistance(grid, unvisitedNodes) ==
    SortByKey(unvisitedNodes, [p \in DOMAIN grid |-> grid[p].distance], <<>>)

\* the open set with the largest f first
sortNodesByFDescending(grid, nodes) ==
    SortByKey(nodes, [p \in DOMAIN grid |-> 0 - grid[p].f], <<>>)

\* (a.f || 0)
sortNodesByF(grid, nodes) ==
    SortByKey(nodes, [p \in DOMAIN grid |-> grid[p].f], <<>>)

\* grid.length and grid[0].length
RowsOf(grid) == Cardinality({p[1] : p \in DOMAIN grid})
ColsOf(grid) == Cardinality({p[2] : p \in DOMAIN grid})

\* up, down, left, right, then the filter on isVisited
getNeighbors(grid, p) ==
    LET row == p[1]
        col == p[2]
        all == (IF row > 0 THEN <<<<row - 1, col>>>> ELSE <<>>)
               \o (IF row < RowsOf(grid) - 1 THEN <<<<row + 1, col>>>> ELSE <<>>)
               \o (IF col > 0 THEN <<<<row, col - 1>>>> ELSE <<>>)
               \o (IF col < ColsOf(grid) - 1 THEN <<<<row, col + 1>>>> ELSE <<>>)
    IN  SelectSeq(all, LAMBDA q : ~grid[q].isVisited)

\* the loop of updateUnvisitedNeighbors without the previousNode assignment
RECURSIVE setNeighborsNoPrevious(_, _, _, _)
setNeighborsNoPrevious(grid, neighbors, p, k) ==
    IF k > Len(neighbors) THEN grid
    ELSE setNeighborsNoPrevious([grid EXCEPT ![neighbors[k]].distance = grid[p].distance + 1],
                                neighbors, p, k + 1)

RECURSIVE setNeighbors(_, _, _, _)
setNeighbors(grid, neighbors, p, k) ==
    IF k > Len(neighbors) THEN grid
    ELSE setNeighbors([grid EXCEPT ![neighbors[k]].distance = grid[p].distance + 1,
                                   ![neighbors[k]].previousNode = p],
                      neighbors, p, k + 1)

updateUnvisitedNeighbors(grid, p) == setNeighbors(grid, getNeighbors(grid, p), p, 1)

\* row by row
getAllNodes(grid) ==
    [k \in 1..(RowsOf(grid) * ColsOf(grid)) |->
        <<(k - 1) \div ColsOf(grid), (k - 1) % ColsOf(grid)>>]

RECURSIVE dijkstraLoop(_, _, _, _)
dijkstraLoop(grid, unvisitedNodes, visitedNodesInOrder, endNode) ==
    IF unvisitedNodes = <<>> THEN [grid |-> grid, visited |-> visitedNodesInOrder]
    ELSE LET sorted      == sortNodesByDistance(grid, unvisitedNodes)
             closestNode == Head(sorted)
             rest        == Tail(sorted)
         IN  IF grid[closestNode].type = "wall"
             THEN dijkstraLoop(grid, rest, visitedNodesInOrder, endNode)
             ELSE IF grid[closestNode].distance = Infinity
             THEN [grid |-> grid, visited |-> visitedNodesInOrder]
             ELSE LET g1 == [grid EXCEPT ![closestNode].isVisited = TRUE]
                      v1 == Append(visitedNodesInOrder, closestNode)
                  IN  IF closestNode = endNode
                      THEN [grid |-> g1, visited |-> v1]
                      ELSE dijkstraLoop(updateUnvisitedNeighbors(g1, closestNode),
                                        rest, v1, endNode)

\* works on the cells of the grid it is given: the result carries the grid as
\* the call leaves it
dijkstra(grid, startNode, endNode) ==
    dijkstraLoop([grid EXCEPT ![startNode].distance = 0], getAllNodes(grid), <<>>, endNode)

Abs(x) == IF x < 0 THEN -x ELSE x

heuristic(a, b) == Abs(a[1] - b[1]) + Abs(a[2] - b[2])

\* (x || y) on numbers: 0 is falsy
OrElse(x, y) == IF x = 0 THEN y ELSE x

InSeq(x, seq) == \E k \in 1..Len(seq) : seq[k] = x

RECURSIVE aStarNeighbors(_, _, _, _, _, _)
aStarNeighbors(grid, openSet, neighbors, current, endNode, k) ==
    IF k > Len(neighbors) THEN [grid |-> grid, openSet |-> openSet]
    ELSE LET neighbor   == neighbors[k]
             tentativeG == OrElse(grid[current].g, 0) + 1
         IN  IF grid[neighbor].isVisited \/ grid[neighbor].type = "wall"
             THEN aStarNeighbors(grid, openSet, neighbors, current, endNode, k + 1)
             ELSE IF tentativeG < OrElse(grid[neighbor].g, Infinity)
             THEN aStarNeighbors(
                      [grid EXCEPT ![neighbor].previousNode = current,
                                   ![neighbor].g = tentativeG,
                                   ![neighbor].h = heuristic(neighbor, endNode),
                                   ![neighbor].f = tentativeG + heuristic(neighbor, endNode)],
                      IF InSeq(neighbor, openSet) THEN openSet ELSE Append(openSet, neighbor),
                      neighbors, current, endNode, k + 1)
             ELSE aStarNeighbors(grid, openSet, neighbors, current, endNode, k + 1)

RECURSIVE aStarLoop(_, _, _, _)
aStarLoop(grid, openSet, visitedNodesInOrder, endNode) ==
    IF openSet = <<>> THEN [grid |-> grid, visited |-> visitedNodesInOrder]
    ELSE LET sorted  == sortNodesByF(grid, openSet)
             current == Head(sorted)
             rest    == Tail(sorted)
         IN  IF grid[current].type = "wall"
             THEN aStarLoop(grid, rest, visitedNodesInOrder, endNode)
             ELSE LET g1 == [grid EXCEPT ![current].isVisited = TRUE]
                      v1 == Append(visitedNodesInOrder, current)
                  IN  IF current = endNode
                      THEN [grid |-> g1, visited |-> v1]
                      ELSE LET r == aStarNeighbors(g1, rest, getNeighbors(g1, current),
                                                   current, endNode, 1)
                           IN  aStarLoop(r.grid, r.openSet, v1, endNode)

aStar(grid, startNode, endNode) ==
    LET g1 == [grid EXCEPT ![startNode].g = 0,
                           ![startNode].h = heuristic(startNode, endNode),
                           ![startNode].f = heuristic(startNode, endNode)]
    IN  aStarLoop(g1, <<startNode>>, <<>>, endNode)

RECURSIVE shortestPathWalk(_, _, _)
shortestPathWalk(grid, currentNode, nodesInShortestPathOrder) ==
    LET path == <<currentNode>> \o nodesInShortestPathOrder
    IN  IF grid[currentNode].previousNode = NoNode THEN path
        ELSE shortestPathWalk(grid, grid[currentNode].previousNode, path)

getNodesInShortestPathOrder(grid, finishNode) == shortestPathWalk(grid, finishNode, <<>>)

----------------------------------------------------------------------------
(* PathfindingVisualizer: running and animating *)

PathAlgorithms == {"dijkstra", "aStar"}

\* the loop with every second callback left out when the step is short
RECURSIVE scheduleEachSkipping(_, _, _, _, _, _, _)
scheduleEachSkipping(ts, idBase, kind, step, list, cl, k) ==
    IF k >= Len(list) THEN ts
    ELSE scheduleEachSkipping(IF step < 10 /\ k % 2 = 1 THEN ts
                              ELSE ts \cup {Timer(idBase + k, kind, step * k, k, list, cl)},
                              idBase, kind, step, list, cl, k + 1)

\* setTimeout in a for loop: callback k of list (0-based) is due after step * k
RECURSIVE scheduleEach(_, _, _, _, _, _, _)
scheduleEach(ts, idBase, kind, step, list, cl, k) ==
    IF k >= Len(list) THEN ts
    ELSE scheduleEach(ts \cup {Timer(idBase + k, kind, step * k, k, list, cl)},
                      idBase, kind, step, list, cl, k + 1)

\* animateAlgorithm with the shortest-path timeout set to no delay
animateAlgorithmPathAtOnce(n, cl, visitedNodesInOrder, nodesInShortestPathOrder) ==
    LET animationSpeed == (MaxSpeed + 1) - cl.speed
        idBase == NextTimerId(n)
        len    == Len(visitedNodesInOrder)
        ts     == scheduleEach(n.timers, idBase, "visit", animationSpeed,
                               visitedNodesInOrder, cl, 0)
    IN  [n EXCEPT !.timers = ts \cup {Timer(idBase + len, "pathTrigger", 0,
                                            len, nodesInShortestPathOrder, cl)},
                  !.pathfinding.animationTimeoutRef = idBase + len]

\* one timeout per visited node and one for the shortest path, each assigned
\* to the one ref in turn: the ref ends holding the last, the shortest-path one
animateAlgorithm(n, cl, visitedNodesInOrder, nodesInShortestPathOrder) ==
    LET animationSpeed == (MaxSpeed + 1) - cl.speed
        idBase == NextTimerId(n)
        len    == Len(visitedNodesInOrder)
        ts     == scheduleEach(n.timers, idBase, "visit", animationSpeed,
                               visitedNodesInOrder, cl, 0)
    IN  [n EXCEPT !.timers = ts \cup {Timer(idBase + len, "pathTrigger", animationSpeed * len,
                                            len, nodesInShortestPathOrder, cl)},
                  !.pathfinding.animationTimeoutRef = idBase + len]

animateShortestPath(n, cl, nodesInShortestPathOrder) ==
    LET animationSpeed == (MaxSpeed + 1) - cl.speed
        idBase == NextTimerId(n)
        len    == Len(nodesInShortestPathOrder)
    IN  IF len = 0 THEN n
        ELSE [n EXCEPT !.timers = scheduleEach(@, idBase, "path", animationSpeed,
                                               nodesInShortestPathOrder, cl, 0),
                       !.pathfinding.animationTimeoutRef = idBase + len - 1]

\* c: the render closed over; the recorder mutates the cells of the state grid
visualizeAlgorithm(c, n) ==
    LET startNode == c.pathfinding.startNode
        endNode   == c.pathfinding.endNode
        r  == IF c.home.selectedAlgorithm = "aStar"
              THEN aStar(n.pathfinding.grid, startNode, endNode)
              ELSE dijkstra(n.pathfinding.grid, startNode, endNode)
        n1 == [n EXCEPT !.pathfinding.isVisualizing = TRUE,
                        !.pathfinding.grid = r.grid,
                        !.obs.runs = @ + 1]
    IN  animateAlgorithm(n1, Closure(c, n1.obs.runs), r.visited,
                         getNodesInShortestPathOrder(r.grid, endNode))

stopVisualization(n) == pathClearRef([n EXCEPT !.pathfinding.isVisualizing = FALSE])

\* the marking without the test for 'start' and 'end'
markCellAlways(grid, p, type) == [grid EXCEPT ![p].type = type]

\* setGrid((prevGrid) => ...): start and end keep their type
markCell(grid, p, type) ==
    IF grid[p].type = "start" \/ grid[p].type = "end" THEN grid
    ELSE [grid EXCEPT ![p].type = type]

\* the callbacks of the pathfinding visualizer
pathFire(n, t) ==
    CASE t.kind = "visit" ->
            [n EXCEPT !.pathfinding.grid = markCell(@, t.list[t.i + 1], "visited"),
                      !.obs.applied = Append(@, Applied("visit", t.i, t.closure.run))]
      [] t.kind = "pathTrigger" -> animateShortestPath(n, t.closure, t.list)
      [] t.kind = "path" ->
            LET n1 == [n EXCEPT !.pathfinding.grid = markCell(@, t.list[t.i + 1], "path"),
                                !.obs.applied = Append(@, Applied("path", t.i, t.closure.run))]
            IN  IF t.i = Len(t.list) - 1
                THEN toastComplete([n1 EXCEPT !.pathfinding.isVisualizing = FALSE,
                                              !.pathfinding.isPathFound = TRUE])
                ELSE n1

pathPlayCleanup(n) ==
    IF n.pathfinding.animationTimeoutRef # Null
    THEN clearTimeout(n, n.pathfinding.animationTimeoutRef) ELSE n

\* the play effect without the test of isPathFound
pathPlayEffectAgain(c, n) ==
    IF c.home.isPlaying /\ ~c.pathfinding.isVisualizing
    THEN visualizeAlgorithm(c, n)
    ELSE IF ~c.home.isPlaying /\ c.pathfinding.isVisualizing THEN stopVisualization(n)
    ELSE n

pathPlayEffect(c, n) ==
    IF c.home.isPlaying /\ ~c.pathfinding.isVisualizing /\ ~c.pathfinding.isPathFound
    THEN visualizeAlgorithm(c, n)
    ELSE IF ~c.home.isPlaying /\ c.pathfinding.isVisualizing THEN stopVisualization(n)
    ELSE n

pathDeps(w) ==
    [mount |-> TRUE,
     reset |-> <<w.home.isReset>>,
     play  |-> <<w.home.isPlaying, w.pathfinding.isVisualizing, w.pathfinding.isPathFound>>]

pathCommit(c, last) ==
    LET playChanged  == pathDeps(c).play # last.play
        resetChanged == pathDeps(c).reset # last.reset
        n1 == IF playChanged THEN pathPlayCleanup(c) ELSE c
        n2 == IF ~last.mount THEN initializeGrid(c, n1) ELSE n1
        n3 == IF resetChanged /\ c.home.isReset THEN resetGrid(c, n2) ELSE n2
    IN  IF playChanged THEN pathPlayEffect(c, n3) ELSE n3

RECURSIVE pathSettle(_, _)
pathSettle(w, last) ==
    LET n == pathCommit(w, last)
    IN  IF n = w THEN w ELSE pathSettle(n, pathDeps(w))

----------------------------------------------------------------------------
(* GraphTraversalVisualizer *)

GraphAlgorithms == {"bfs", "dfs"}

\* useState<number | null>(null): no start node
NoStartNode == -1

NodeIds == 0..(NumNodes - 1)

GraphInitial ==
    [nodes |-> <<>>, selectedNode |-> NoStartNode, isVisualizing |-> FALSE,
     isComplete |-> FALSE, isDragging |-> FALSE, startNode |-> NoStartNode,
     animationTimeoutRef |-> Null]

\* the node with the given id: nodes.find((n) => n.id === id)
NodeAt(nodes, id) == nodes[id + 1]

\* the inner loop of generateRandomGraph for node i: connection j of numConnections.
\* The target is drawn until it is neither i nor already connected; with no such
\* node the loop never ends and no graph comes out.
RECURSIVE genConnections(_, _, _, _)
RECURSIVE genNodes(_, _)
genConnections(conns, i, j, numConnections) ==
    IF j >= numConnections THEN genNodes(conns, i + 1)
    ELSE LET targets == {t \in NodeIds : t # i /\ ~InSeq(t, conns[i])}
         IN  UNION {genConnections(
                        [k \in NodeIds |->
                            IF k = i THEN Append(conns[k], t)
                            ELSE IF k = t /\ ~InSeq(i, conns[k]) THEN Append(conns[k], i)
                            ELSE conns[k]],
                        i, j + 1, numConnections) : t \in targets}

\* the outer loop: 1-3 connections per node
genNodes(conns, i) ==
    IF i >= NumNodes THEN {conns}
    ELSE UNION {genConnections(conns, i, 0, numConnections) : numConnections \in 1..3}

\* the positions on the canvas; x stands for the pair (x, y)
CanvasXs == 0..MaxX

\* Math.random() * (canvasWidth - 100) + 50: the model generates one position
GeneratedX == 0

\* every graph generateRandomGraph can return
GeneratedGraphs ==
    {[k \in 1..NumNodes |->
         [id |-> k - 1, x |-> GeneratedX, connections |-> conns[k - 1], state |-> "default"]] :
        conns \in genNodes([i \in NodeIds |-> <<>>], 0)}

generateRandomGraph(n, newNodes) ==
    [n EXCEPT !.graph.nodes = newNodes, !.graph.startNode = NoStartNode]

SetAllDefault(nodes) == [k \in DOMAIN nodes |-> [nodes[k] EXCEPT !.state = "default"]]

\* state: node.id === startNode ? "current" : "default"
MarkStart(nodes, startNode) ==
    [k \in DOMAIN nodes |->
        [nodes[k] EXCEPT !.state = IF nodes[k].id = startNode THEN "current" ELSE "default"]]

\* state: node.state === "current" ? "visited" : node.state
CurrentToVisited(nodes) ==
    [k \in DOMAIN nodes |->
        [nodes[k] EXCEPT !.state = IF nodes[k].state = "current" THEN "visited" ELSE @]]

graphClearRef(n) ==
    IF n.graph.animationTimeoutRef # Null
    THEN [clearTimeout(n, n.graph.animationTimeoutRef) EXCEPT !.graph.animationTimeoutRef = Null]
    ELSE n

resetGraph(n) ==
    [graphClearRef(n) EXCEPT !.graph.nodes = SetAllDefault(@),
                             !.graph.isVisualizing = FALSE, !.graph.isComplete = FALSE]

\* a mouse down that hits node id
handleCanvasMouseDown(n, id) ==
    IF n.graph.isVisualizing THEN n
    ELSE LET n1 == [n EXCEPT !.graph.selectedNode = id, !.graph.isDragging = TRUE]
         IN  IF ~n.graph.isVisualizing /\ ~n.graph.isComplete
             THEN [n1 EXCEPT !.graph.startNode = id, !.graph.nodes = SetAllDefault(@)]
             ELSE n1

\* node.id === selectedNode ? { ...node, x, y } : node
MoveNode(nodes, selectedNode, x) ==
    [k \in DOMAIN nodes |->
        IF nodes[k].id = selectedNode THEN [nodes[k] EXCEPT !.x = x] ELSE nodes[k]]

\* a mouse move to position x
handleCanvasMouseMove(n, x) ==
    IF ~n.graph.isDragging \/ n.graph.selectedNode = NoStartNode \/ n.graph.isVisualizing
    THEN n
    ELSE [n EXCEPT !.graph.nodes = MoveNode(@, n.graph.selectedNode, x)]

handleCanvasMouseUp(n) ==
    [n EXCEPT !.graph.isDragging = FALSE, !.graph.selectedNode = NoStartNode]

\* the neighbor loop of runBFS with unshift in place of push
RECURSIVE bfsNeighborsUnshift(_, _, _, _)
bfsNeighborsUnshift(visited, queue, connections, k) ==
    IF k > Len(connections) THEN [visited |-> visited, queue |-> queue]
    ELSE IF connections[k] \in visited
    THEN bfsNeighborsUnshift(visited, queue, connections, k + 1)
    ELSE bfsNeighborsUnshift(visited \cup {connections[k]}, <<connections[k]>> \o queue,
                             connections, k + 1)

RECURSIVE bfsNeighbors(_, _, _, _)
bfsNeighbors(visited, queue, connections, k) ==
    IF k > Len(connections) THEN [visited |-> visited, queue |-> queue]
    ELSE IF connections[k] \in visited
    THEN bfsNeighbors(visited, queue, connections, k + 1)
    ELSE bfsNeighbors(visited \cup {connections[k]}, Append(queue, connections[k]),
                      connections, k + 1)

RECURSIVE bfsLoop(_, _, _, _)
bfsLoop(nodes, visited, queue, visitOrder) ==
    IF queue = <<>> THEN visitOrder
    ELSE LET nodeId == Head(queue)
             r == bfsNeighbors(visited, Tail(queue), NodeAt(nodes, nodeId).connections, 1)
         IN  bfsLoop(nodes, r.visited, r.queue, Append(visitOrder, nodeId))

\* the visit order runBFS hands to animateTraversal
runBFS(nodes, startNode) == bfsLoop(nodes, {startNode}, <<startNode>>, <<>>)

RECURSIVE dfs(_, _, _)
RECURSIVE dfsNeighbors(_, _, _, _)
dfs(nodes, acc, nodeId) ==
    dfsNeighbors(nodes,
                 [visited |-> acc.visited \cup {nodeId},
                  visitOrder |-> Append(acc.visitOrder, nodeId)],
                 NodeAt(nodes, nodeId).connections, 1)

\* the neighbor loop of dfs leaving after the first neighbor
dfsNeighborsFirstOnly(nodes, acc, connections, k) ==
    IF k > Len(connections) THEN acc
    ELSE IF connections[k] \in acc.visited THEN acc
    ELSE dfs(nodes, acc, connections[k])

dfsNeighbors(nodes, acc, connections, k) ==
    IF k > Len(connections) THEN acc
    ELSE dfsNeighbors(nodes,
                      IF connections[k] \in acc.visited THEN acc
                      ELSE dfs(nodes, acc, connections[k]),
                      connections, k + 1)

\* the visit order runDFS hands to animateTraversal
runDFS(nodes, startNode) == dfs(nodes, [visited |-> {}, visitOrder |-> <<>>], startNode).visitOrder

\* callback i is due after animationSpeed * i * 2; the ref ends holding the last
animateTraversal(n, cl, visitOrder) ==
    LET animationSpeed == (MaxSpeed + 1) - cl.speed
        idBase == NextTimerId(n)
    IN  IF Len(visitOrder) = 0 THEN n
        ELSE [n EXCEPT !.timers = scheduleEach(@, idBase, "graphStep", animationSpeed * 2,
                                               visitOrder, cl, 0),
                       !.graph.animationTimeoutRef = idBase + Len(visitOrder) - 1]

graphVisualizeAlgorithm(c, n) ==
    IF c.graph.startNode = NoStartNode THEN n
    ELSE LET n1 == [n EXCEPT !.graph.isVisualizing = TRUE, !.graph.isComplete = FALSE,
                             !.graph.nodes = MarkStart(@, c.graph.startNode),
                             !.obs.runs = @ + 1]
             cl == Closure(c, n1.obs.runs)
         IN  IF c.home.selectedAlgorithm = "bfs"
             THEN animateTraversal(n1, cl, runBFS(c.graph.nodes, c.graph.startNode))
             ELSE IF c.home.selectedAlgorithm = "dfs"
             THEN animateTraversal(n1, cl, runDFS(c.graph.nodes, c.graph.startNode))
             ELSE n1

graphStopVisualization(n) == graphClearRef([n EXCEPT !.graph.isVisualizing = FALSE])

RECURSIVE markQueued(_, _, _)
markQueued(nodes, connections, k) ==
    IF k > Len(connections) THEN nodes
    ELSE markQueued(IF NodeAt(nodes, connections[k]).state = "default"
                    THEN [nodes EXCEPT ![connections[k] + 1].state = "queued"] ELSE nodes,
                    connections, k + 1)

\* the setNodes updater of step i of the traversal
stepNodes(prevNodes, visitOrder, i, algorithm) ==
    LET nodeId == visitOrder[i + 1]
        n1 == IF i > 0 THEN [prevNodes EXCEPT ![visitOrder[i] + 1].state = "visited"]
              ELSE prevNodes
        n2 == [n1 EXCEPT ![nodeId + 1].state = "current"]
    IN  IF algorithm = "bfs" THEN markQueued(n2, NodeAt(n2, nodeId).connections, 1) ELSE n2

\* the callbacks of the graph visualizer; the completion timeout of the last
\* step is held in no ref
graphFire(n, t) ==
    IF t.kind = "graphStep"
    THEN LET n1 == [n EXCEPT !.graph.nodes = stepNodes(@, t.list, t.i, t.closure.algorithm),
                             !.obs.applied = Append(@, Applied("graph", t.i, t.closure.run))]
         IN  IF t.i = Len(t.list) - 1
             THEN [n1 EXCEPT !.timers = @ \cup {Timer(NextTimerId(n1), "graphDone",
                                                     (MaxSpeed + 1) - t.closure.speed,
                                                     t.i, t.list, t.closure)}]
             ELSE n1
    ELSE toastComplete(
             [n EXCEPT !.graph.nodes = CurrentToVisited(@),
                       !.graph.isVisualizing = FALSE, !.graph.isComplete = TRUE])

graphPlayCleanup(n) ==
    IF n.graph.animationTimeoutRef # Null
    THEN clearTimeout(n, n.graph.animationTimeoutRef) ELSE n

\* no toast
toastNothing(n) == n

\* toast({ title: "Select a start node" })
toastSelectStart(n) == [n EXCEPT !.obs.errors = IF @ < 2 THEN @ + 1 ELSE @]

graphPlayEffect(c, n) ==
    IF c.home.isPlaying /\ ~c.graph.isVisualizing /\ ~c.graph.isComplete
    THEN IF c.graph.startNode # NoStartNode THEN graphVisualizeAlgorithm(c, n)
         ELSE toastSelectStart(n)
    ELSE IF ~c.home.isPlaying /\ c.graph.isVisualizing THEN graphStopVisualization(n)
    ELSE n

\* the dependencies with startNode left out of the play effect's list
graphDepsWithoutStartNode(w) ==
    [mount |-> TRUE,
     reset |-> <<w.home.isReset>>,
     play  |-> <<w.home.isPlaying, w.graph.isVisualizing, w.graph.isComplete>>]

graphDeps(w) ==
    [mount |-> TRUE,
     reset |-> <<w.home.isReset>>,
     play  |-> <<w.home.isPlaying, w.graph.isVisualizing, w.graph.isComplete,
                 w.graph.startNode>>]

graphCommit(c, last, newNodes) ==
    LET playChanged  == graphDeps(c).play # last.play
        resetChanged == graphDeps(c).reset # last.reset
        n1 == IF playChanged THEN graphPlayCleanup(c) ELSE c
        n2 == IF ~last.mount THEN generateRandomGraph(n1, newNodes) ELSE n1
        n3 == IF resetChanged /\ c.home.isReset THEN resetGraph(n2) ELSE n2
    IN  IF playChanged THEN graphPlayEffect(c, n3) ELSE n3

RECURSIVE graphSettle(_, _, _)
graphSettle(w, last, newNodes) ==
    LET n == graphCommit(w, last, newNodes)
    IN  IF n = w THEN w ELSE graphSettle(n, graphDeps(w), newNodes)

----------------------------------------------------------------------------
(* The page: rendering, user input and timer callbacks *)

\* the arrays Math.random() can fill (values and lengths bounded)
Values == 1..MaxVal

RECURSIVE SeqsUpTo(_, _)
SeqsUpTo(S, n) ==
    IF n = 0 THEN {<<>>}
    ELSE LET shorter == SeqsUpTo(S, n - 1)
         IN  shorter \cup {Append(s, x) : s \in {t \in shorter : Len(t) = n - 1}, x \in S}

InputArrays == {[k \in 1..Len(vs) |-> Bar(vs[k])] : vs \in SeqsUpTo(Values, MaxLen)}

Mounted(w, category) == w.home.selectedCategory = category

depsOf(w) ==
    CASE Mounted(w, "sorting")        -> sortDeps(w)
      [] Mounted(w, "pathfinding")    -> pathDeps(w)
      [] Mounted(w, "graphTraversal") -> graphDeps(w)

\* the mounted visualizer renders and commits until it is stable; last holds the
\* effect dependencies of its previous render, fresh what Math.random() yields
settle(w, last, fresh) ==
    CASE Mounted(w, "sorting")        -> sortSettle(w, last, fresh.array)
      [] Mounted(w, "pathfinding")    -> pathSettle(w, last)
      [] Mounted(w, "graphTraversal") -> graphSettle(w, last, fresh.nodes)

fire(n, t) ==
    CASE Mounted(n, "sorting")        -> sortFire(n, t)
      [] Mounted(n, "pathfinding")    -> pathFire(n, t)
      [] Mounted(n, "graphTraversal") -> graphFire(n, t)

NoFresh == [array |-> <<>>, nodes |-> <<>>]

\* the random data a step may draw: an array if the sorting visualizer
\* generates one, a graph if the graph visualizer does
FreshFor(needArray, needNodes) ==
    {[array |-> a, nodes |-> g] :
        a \in (IF needArray THEN InputArrays ELSE {<<>>}),
        g \in (IF needNodes THEN GeneratedGraphs ELSE {<<>>})}

\* timer handles are opaque numbers: the pending ones are kept numbered 1..k in
\* the order they were handed out, and a handle left in a ref after its callback
\* ran or was cancelled is k + 1
Rank(ids, id) == Cardinality({j \in ids : j <= id})

CanonRef(ids, ref) ==
    IF ref = Null THEN Null
    ELSE IF ref \in ids THEN Rank(ids, ref) ELSE Cardinality(ids) + 1

Canon(w) ==
    LET ids == {t.id : t \in w.timers}
    IN  [w EXCEPT !.timers = {[t EXCEPT !.id = Rank(ids, @)] : t \in @},
                  !.sorting.animationTimeoutRef = CanonRef(ids, @),
                  !.sorting.animationFrameIdRef = CanonRef(ids, @),
                  !.pathfinding.animationTimeoutRef = CanonRef(ids, @),
                  !.graph.animationTimeoutRef = CanonRef(ids, @)]

IsWorld(w) ==
    /\ home = w.home
    /\ sorting = w.sorting
    /\ pathfinding = w.pathfinding
    /\ graph = w.graph
    /\ timers = w.timers
    /\ obs = w.obs

SetWorld(w, last) ==
    LET n == Canon([w EXCEPT !.obs.last = last])
    IN  /\ home' = n.home
        /\ sorting' = n.sorting
        /\ pathfinding' = n.pathfinding
        /\ graph' = n.graph
        /\ timers' = n.timers
        /\ obs' = n.obs

\* no grid and no graph under check
PathRecIdle == [grid |-> <<>>]
GraphRecIdle == [nodes |-> <<>>]

\* no playback under comparison
SpeedRecIdle == [runs |-> <<>>]

\* no generation under check
GenRecIdle == [conns |-> <<>>]

RecIdle ==
    /\ recAlg = "bubbleSort"
    /\ recInput = <<>>
    /\ recAnims = <<>>
    /\ recPos = -1
    /\ recArr = <<>>
    /\ recSO = <<>>
    /\ recThrew = FALSE
    /\ pathRec = PathRecIdle
    /\ graphRec = GraphRecIdle
    /\ speedRec = SpeedRecIdle
    /\ genRec = GenRecIdle

\* a callback that is due runs before any further input is handled, and the
\* model takes input only once the callbacks from before the last reset, but
\* for a bounded number of them, have run
NoTimerDue ==
    /\ \A t \in timers : t.rem > 0
    /\ Cardinality({t \in timers : IsStale(t)}) <= MaxStale

\* the model starts a run only within its bounds
CanStartRun ==
    /\ obs.runs < MaxRuns
    /\ Cardinality(timers) <= MaxPending

\* the model edits the dataset before the first run of a session or while a
\* run is active, and follows a bounded number of editing gestures per session
EditPhase ==
    \/ obs.runs = 0
    \/ sorting.isSorting
    \/ pathfinding.isVisualizing
    \/ graph.isVisualizing

CanEdit == EditPhase /\ obs.edits < MaxEdits

Edited(w) == [w EXCEPT !.obs.edits = @ + 1]

\* observer: a reset, an algorithm change or a category change ends the session
EndSession(w, by) ==
    [w EXCEPT !.obs = ObsInitial,
              !.timers = {[t EXCEPT !.stale = by] : t \in @}]

\* the component of the category being left unmounts (its cleanup clears the
\* timeout of the ref; the callbacks left can only set state of the unmounted
\* component), and the one of the new category mounts
Remount(w) ==
    [w EXCEPT !.sorting = SortingInitial, !.pathfinding = PathfindingInitial,
              !.graph = GraphInitial, !.timers = {}]

Init ==
    /\ \E fresh \in FreshFor(TRUE, FALSE) :
          IsWorld(Canon(settle([home |-> HomeInitial, sorting |-> SortingInitial,
                                pathfinding |-> PathfindingInitial, graph |-> GraphInitial,
                                timers |-> {}, obs |-> ObsInitial], NoDeps, fresh)))
    /\ RecIdle

PressPlayPause ==
    /\ NoTimerDue
    /\ home.isPlaying \/ CanStartRun
    /\ SetWorld(settle([World EXCEPT !.home = handlePlayPause(@)], depsOf(World), NoFresh), "user")
    /\ UNCHANGED recVars

PressReset ==
    /\ NoTimerDue
    /\ LET w == EndSession([World EXCEPT !.home = handleReset(@)], "reset")
       IN  \E fresh \in FreshFor(Mounted(w, "sorting") /\ sortGenerates(w, depsOf(World)), FALSE) :
              SetWorld(settle(w, depsOf(World), fresh), "pressReset")
    /\ UNCHANGED recVars

AlgorithmsOf(category) ==
    CASE category = "sorting"        -> SortAlgorithms
      [] category = "pathfinding"    -> PathAlgorithms
      [] category = "graphTraversal" -> GraphAlgorithms

ChangeAlgorithm ==
    /\ NoTimerDue
    /\ \E algorithm \in AlgorithmsOf(home.selectedCategory) \ {home.selectedAlgorithm} :
          LET w == EndSession([World EXCEPT !.home = handleAlgorithmChange(@, algorithm)], "change")
          IN  \E fresh \in FreshFor(Mounted(w, "sorting") /\ sortGenerates(w, depsOf(World)), FALSE) :
                 SetWorld(settle(w, depsOf(World), fresh), "user")
    /\ UNCHANGED recVars

ChangeCategory ==
    /\ NoTimerDue
    /\ \E category \in Categories \ {home.selectedCategory} :
          LET w == Remount(EndSession([World EXCEPT !.home = handleCategoryChange(@, category)], "change"))
          IN  \E fresh \in FreshFor(category = "sorting", category = "graphTraversal") :
                 SetWorld(settle(w, NoDeps, fresh), "user")
    /\ UNCHANGED recVars

ChangeSpeed ==
    /\ NoTimerDue
    /\ \E value \in SpeedChoices \ {home.speed} :
          SetWorld([World EXCEPT !.home = handleSpeedChange(@, value)], "user")
    /\ UNCHANGED recVars

Resize ==
    /\ NoTimerDue
    /\ Mounted(World, "sorting")
    /\ CanEdit
    /\ \E fresh \in FreshFor(~sorting.isSorting, FALSE) :
          SetWorld(Edited(handleResize(World, fresh.array)), "edit")
    /\ UNCHANGED recVars

GridMouseDown ==
    /\ NoTimerDue
    /\ Mounted(World, "pathfinding")
    /\ CanEdit
    /\ \E p \in Pos : SetWorld(Edited(handleMouseDown(World, p)), "edit")
    /\ UNCHANGED recVars

GridMouseEnter ==
    /\ NoTimerDue
    /\ EditPhase
    /\ Mounted(World, "pathfinding")
    /\ \E p \in Pos : SetWorld(handleMouseEnter(World, p), "edit")
    /\ UNCHANGED recVars

GridMouseUp ==
    /\ NoTimerDue
    /\ EditPhase
    /\ Mounted(World, "pathfinding")
    /\ SetWorld(handleMouseUp(World), "user")
    /\ UNCHANGED recVars

CanvasMouseDown ==
    /\ NoTimerDue
    /\ Mounted(World, "graphTraversal")
    /\ ~home.isPlaying \/ CanStartRun
    /\ CanEdit
    /\ \E id \in NodeIds :
          SetWorld(settle(Edited(handleCanvasMouseDown(World, id)), depsOf(World), NoFresh),
                   "edit")
    /\ UNCHANGED recVars

CanvasMouseMove ==
    /\ NoTimerDue
    /\ EditPhase
    /\ Mounted(World, "graphTraversal")
    /\ \E x \in CanvasXs : SetWorld(handleCanvasMouseMove(World, x), "edit")
    /\ UNCHANGED recVars

CanvasMouseUp ==
    /\ NoTimerDue
    /\ EditPhase
    /\ Mounted(World, "graphTraversal")
    /\ SetWorld(handleCanvasMouseUp(World), "user")
    /\ UNCHANGED recVars

\* the "Generate New Graph" button, disabled={isVisualizing}
ClickGenerate ==
    /\ NoTimerDue
    /\ Mounted(World, "graphTraversal")
    /\ ~graph.isVisualizing
    /\ CanEdit
    /\ \E fresh \in FreshFor(FALSE, TRUE) :
          SetWorld(settle(Edited(generateRandomGraph(World, fresh.nodes)), depsOf(World),
                          NoFresh), "edit")
    /\ UNCHANGED recVars

\* the pending callback that is due first (the older one among equals)
NextTimer(ts) ==
    CHOOSE t \in ts : \A u \in ts : t.rem < u.rem \/ (t.rem = u.rem /\ t.id <= u.id)

\* time passes until the next callback of w0 is due, and it runs
fireNext(w0) ==
    LET t == NextTimer(w0.timers)
        w == [w0 EXCEPT !.timers = {[u EXCEPT !.rem = @ - t.rem] : u \in w0.timers \ {t}}]
        n == fire(w, t)
        \* what a callback from before the last reset schedules is from before
        \* it too, and the observer's log is of the current session only
    IN  IF IsStale(t)
        THEN [n EXCEPT !.obs = w.obs,
                       !.timers = {IF u \in w.timers THEN u ELSE [u EXCEPT !.stale = t.stale] :
                                      u \in @}]
        ELSE n

\* the callback runs, and the visualizer renders and commits what it has set
tickWorld(w0) == settle(fireNext(w0), depsOf(w0), NoFresh)

Tick ==
    /\ timers # {}
    /\ LET t == NextTimer(timers)
       IN  SetWorld(tickWorld(World), IF IsStale(t) THEN t.stale ELSE "tick")
    /\ UNCHANGED recVars

Next ==
    \/ PressPlayPause
    \/ PressReset
    \/ ChangeAlgorithm
    \/ ChangeCategory
    \/ ChangeSpeed
    \/ Resize
    \/ GridMouseDown
    \/ GridMouseEnter
    \/ GridMouseUp
    \/ CanvasMouseDown
    \/ CanvasMouseMove
    \/ CanvasMouseUp
    \/ ClickGenerate
    \/ Tick

Spec == Init /\ [][Next]_vars

UIIdle ==
    /\ home = HomeInitial
    /\ sorting = SortingInitial
    /\ pathfinding = PathfindingInitial
    /\ graph = GraphInitial
    /\ timers = {}
    /\ obs = ObsInitial

----------------------------------------------------------------------------
(* Replay of a recorder's animations on a copy of its input *)

ValuesOf(arr) == [k \in 1..Len(arr) |-> arr[k].value]

IsValueEvent(animation) == animation.type \in {"swap", "overwrite"}

RecInit ==
    /\ recAlg \in SortAlgorithms
    /\ recInput \in InputArrays
    /\ recAnims = <<>>
    /\ recPos = -1
    /\ recArr = recInput
    /\ recSO = recInput
    /\ recThrew = FALSE
    /\ pathRec = PathRecIdle
    /\ graphRec = GraphRecIdle
    /\ speedRec = SpeedRecIdle
    /\ genRec = GenRecIdle
    /\ UIIdle

\* the recorder runs on [...array]
RecRecord ==
    /\ recPos = -1
    /\ recAnims' = RecordSort(recAlg, recInput).anims
    /\ recPos' = 0
    /\ UNCHANGED <<recAlg, recInput, recArr, recSO, recThrew, pathRec, graphRec, speedRec, genRec>>
    /\ UNCHANGED uiVars

\* animations[recPos] goes through the switch; once the switch has thrown the
\* array is lost to further animations, and only the swap/overwrite replay
\* continues
RecApply ==
    /\ recPos >= 0
    /\ recPos < Len(recAnims)
    /\ LET animation == recAnims[recPos + 1]
           r == applyAnimation(recArr, animation)
       IN  /\ recArr' = IF recThrew THEN recArr ELSE r.arr
           /\ recThrew' = (recThrew \/ r.threw)
           /\ recSO' = IF IsValueEvent(animation)
                       THEN applyAnimation(recSO, animation).arr ELSE recSO
    /\ recPos' = recPos + 1
    /\ UNCHANGED <<recAlg, recInput, recAnims, pathRec, graphRec, speedRec, genRec>>
    /\ UNCHANGED uiVars

RecNext == RecRecord \/ RecApply

SpecSort == RecInit /\ [][RecNext]_vars

RecDone == recPos >= 0 /\ recPos = Len(recAnims)

----------------------------------------------------------------------------
(* The pathfinding recorders on an edited grid *)

GridPos == (0..(GridRows - 1)) \X (0..(GridCols - 1))

WallSets == {W \in SUBSET GridPos : Cardinality(W) <= MaxWalls}

\* which of the two markers the grid shows: dragging the start node over the
\* end node and on (moveStartNode) leaves no cell of type "end", and likewise
\* for the end node dragged over the start node
Markers == {"both", "start", "end"}

\* a grid as initializeGrid builds it and toggleWall, moveStartNode and
\* moveEndNode edit it: nothing visited, no distance, no previousNode
EditedGrid(startNode, endNode, walls, markers) ==
    [p \in GridPos |->
        [createNode(startNode, endNode, p) EXCEPT
            !.type = IF p = startNode /\ markers # "end" THEN "start"
                     ELSE IF p = endNode /\ markers # "start" THEN "end"
                     ELSE IF p \in walls THEN "wall"
                     ELSE "empty"]]

\* a recorder that has not run
NotRun == [ran |-> FALSE, visited |-> <<>>, path |-> <<>>]

\* visualizeAlgorithm up to animateAlgorithm: the visited order, and the
\* shortest path read off the cells the recorder has written
RunRecorder(algorithm, grid, startNode, endNode) ==
    LET out(r) == [ran |-> TRUE, visited |-> r.visited,
                   path |-> getNodesInShortestPathOrder(r.grid, endNode)]
    IN  out(IF algorithm = "aStar" THEN aStar(grid, startNode, endNode)
            ELSE dijkstra(grid, startNode, endNode))

PathInit ==
    /\ \E startNode \in GridPos, endNode \in GridPos, walls \in WallSets, markers \in Markers :
          /\ markers = "both" => startNode # endNode
          /\ (markers # "end" => startNode \notin walls)
          /\ (markers # "start" => endNode \notin walls)
          /\ pathRec = [grid |-> EditedGrid(startNode, endNode, walls, markers),
                        startNode |-> startNode, endNode |-> endNode,
                        dijkstra |-> NotRun, aStar |-> NotRun]
    /\ graphRec = GraphRecIdle
    /\ speedRec = SpeedRecIdle
    /\ genRec = GenRecIdle
    /\ recAlg = "bubbleSort"
    /\ recInput = <<>>
    /\ recAnims = <<>>
    /\ recPos = -1
    /\ recArr = <<>>
    /\ recSO = <<>>
    /\ recThrew = FALSE
    /\ UIIdle

\* each recorder runs on a copy of the grid of its own
PathRecord ==
    /\ pathRec # PathRecIdle
    /\ \E algorithm \in PathAlgorithms :
          /\ ~pathRec[algorithm].ran
          /\ pathRec' = [pathRec EXCEPT ![algorithm] =
                            RunRecorder(algorithm, pathRec.grid, pathRec.startNode,
                                        pathRec.endNode)]
    /\ UNCHANGED <<recAlg, recInput, recAnims, recPos, recArr, recSO, recThrew, graphRec, speedRec, genRec>>
    /\ UNCHANGED uiVars

PathNext == PathRecord

SpecPath == PathInit /\ [][PathNext]_vars

----------------------------------------------------------------------------
(* The graph traversal recorders on an undirected graph *)

\* the undirected simple graphs on nodes 0..n-1 as sets of edges
EdgeSets(n) ==
    {E \in SUBSET {e \in SUBSET (0..(n - 1)) : Cardinality(e) = 2} : Cardinality(E) <= MaxEdges}

NeighborsIn(E, i) == {j \in UNION E : {i, j} \in E /\ j # i}

\* the orders a connections array can hold the neighbors in
RECURSIVE PermsOf(_)
PermsOf(S) ==
    IF S = {} THEN {<<>>}
    ELSE UNION {{<<x>> \o perm : perm \in PermsOf(S \ {x})} : x \in S}

\* the node arrays of graph E: one connections array per node, ids from i on
RECURSIVE NodeArrays(_, _, _)
NodeArrays(E, n, i) ==
    IF i >= n THEN {<<>>}
    ELSE {<<[id |-> i, x |-> GeneratedX, connections |-> c, state |-> "default"]>> \o rest :
             c \in PermsOf(NeighborsIn(E, i)), rest \in NodeArrays(E, n, i + 1)}

GraphInit ==
    /\ \E n \in 1..MaxNodes :
          \E E \in EdgeSets(n) :
             \E nodes \in NodeArrays(E, n, 0), startNode \in 0..(n - 1) :
                graphRec = [nodes |-> nodes, startNode |-> startNode,
                            bfs |-> <<>>, dfs |-> <<>>, ran |-> {}]
    /\ pathRec = PathRecIdle
    /\ speedRec = SpeedRecIdle
    /\ genRec = GenRecIdle
    /\ recAlg = "bubbleSort"
    /\ recInput = <<>>
    /\ recAnims = <<>>
    /\ recPos = -1
    /\ recArr = <<>>
    /\ recSO = <<>>
    /\ recThrew = FALSE
    /\ UIIdle

\* visualizeAlgorithm: the visit order runBFS or runDFS hands to animateTraversal
GraphRecord ==
    /\ graphRec # GraphRecIdle
    /\ \E algorithm \in GraphAlgorithms \ graphRec.ran :
          graphRec' = [graphRec EXCEPT
                          ![algorithm] = IF algorithm = "bfs"
                                         THEN runBFS(graphRec.nodes, graphRec.startNode)
                                         ELSE runDFS(graphRec.nodes, graphRec.startNode),
                          !.ran = @ \cup {algorithm}]
    /\ UNCHANGED <<recAlg, recInput, recAnims, recPos, recArr, recSO, recThrew, pathRec, speedRec, genRec>>
    /\ UNCHANGED uiVars

GraphNext == GraphRecord

SpecGraph == GraphInit /\ [][GraphNext]_vars

----------------------------------------------------------------------------
(* One dataset played back at several speeds, side by side *)

\* both ends of the slider and its initial value
ComparedSpeeds == {MinSpeed, InitialSpeed, MaxSpeed}

\* the page as it loads, before the first commit
PageInitial ==
    [home |-> HomeInitial, sorting |-> SortingInitial, pathfinding |-> PathfindingInitial,
     graph |-> GraphInitial, timers |-> {}, obs |-> ObsInitial]

\* the page after the category and the algorithm were chosen
MountedWorld(category, algorithm, fresh) ==
    settle(Remount([PageInitial EXCEPT
                       !.home = handleAlgorithmChange(handleCategoryChange(@, category),
                                                      algorithm)]),
           NoDeps, fresh)

\* a click on cell p / on node id, settled
ClickCell(w, p) == settle(handleMouseUp(handleMouseDown(w, p)), depsOf(w), NoFresh)
ClickNode(w, id) == settle(handleCanvasMouseUp(handleCanvasMouseDown(w, id)), depsOf(w), NoFresh)

\* the datasets a run is started on: an array, the grid as initialized or with
\* one wall, a generated graph with its start node selected
SpeedDatasets ==
    {MountedWorld("sorting", a, [array |-> arr, nodes |-> <<>>]) :
        a \in SortAlgorithms, arr \in InputArrays}
    \cup {MountedWorld("pathfinding", a, NoFresh) : a \in PathAlgorithms}
    \cup {ClickCell(MountedWorld("pathfinding", a, NoFresh), p) : a \in PathAlgorithms, p \in Pos}
    \cup {ClickNode(MountedWorld("graphTraversal", a, [array |-> <<>>, nodes |-> g]), id) :
             a \in GraphAlgorithms, g \in GeneratedGraphs, id \in NodeIds}

\* what the user sees of the datasets of page w
VisualOf(w) ==
    <<w.sorting.array,
      [p \in DOMAIN w.pathfinding.grid |-> w.pathfinding.grid[p].type],
      [k \in DOMAIN w.graph.nodes |-> w.graph.nodes[k].state]>>

\* the speed is set, then play is pressed
playAt(w, speed) ==
    settle([w EXCEPT !.home = handlePlayPause(handleSpeedChange(@, speed))], depsOf(w), NoFresh)

\* the visual state is observed right after each applied event
Observe(before, after, visuals) ==
    IF Len(after.obs.applied) > Len(before.obs.applied)
    THEN Append(visuals, VisualOf(after)) ELSE visuals

SpeedInit ==
    /\ \E w \in SpeedDatasets :
          speedRec = [start |-> w,
                      runs  |-> [s \in ComparedSpeeds |->
                                    [played |-> FALSE, world |-> w, visuals |-> <<>>]]]
    /\ genRec = GenRecIdle
    /\ pathRec = PathRecIdle
    /\ graphRec = GraphRecIdle
    /\ recAlg = "bubbleSort"
    /\ recInput = <<>>
    /\ recAnims = <<>>
    /\ recPos = -1
    /\ recArr = <<>>
    /\ recSO = <<>>
    /\ recThrew = FALSE
    /\ UIIdle

\* play is pressed in the copy that runs at speed s
SpeedPlay ==
    /\ speedRec # SpeedRecIdle
    /\ \E s \in ComparedSpeeds :
          /\ ~speedRec.runs[s].played
          /\ LET n == playAt(speedRec.start, s)
             IN  speedRec' = [speedRec EXCEPT
                                 !.runs[s] = [played  |-> TRUE, world |-> n,
                                              visuals |-> Observe(speedRec.start, n, <<>>)]]
    /\ UNCHANGED <<recAlg, recInput, recAnims, recPos, recArr, recSO, recThrew, pathRec, graphRec,
                   genRec>>
    /\ UNCHANGED uiVars

\* the next callback of the copy that runs at speed s is due and runs
SpeedTick ==
    /\ speedRec # SpeedRecIdle
    /\ \E s \in ComparedSpeeds :
          /\ speedRec.runs[s].played
          /\ speedRec.runs[s].world.timers # {}
          /\ LET w == speedRec.runs[s].world
                 n == tickWorld(w)
             IN  speedRec' = [speedRec EXCEPT
                                 !.runs[s].world = n,
                                 !.runs[s].visuals = Observe(w, n, @)]
    /\ UNCHANGED <<recAlg, recInput, recAnims, recPos, recArr, recSO, recThrew, pathRec, graphRec,
                   genRec>>
    /\ UNCHANGED uiVars

SpeedNext == SpeedPlay \/ SpeedTick

SpecSpeed == SpeedInit /\ [][SpeedNext]_vars

----------------------------------------------------------------------------
(* animateAlgorithm and animateShortestPath by themselves: the callbacks they
   schedule run one after the other, and no effect is run in between *)

\* walls on the grids animated
PhaseWalls == 1

\* the pathfinding page with the grid edited: start, end and walls placed
PhaseWorld(algorithm, startNode, endNode, walls) ==
    [MountedWorld("pathfinding", algorithm, NoFresh) EXCEPT
        !.pathfinding.grid = EditedGrid(startNode, endNode, walls, "both"),
        !.pathfinding.startNode = startNode,
        !.pathfinding.endNode = endNode]

PhaseInit ==
    /\ \E algorithm \in PathAlgorithms, startNode \in GridPos, endNode \in GridPos,
          walls \in {W \in WallSets : Cardinality(W) <= PhaseWalls} :
          /\ startNode # endNode
          /\ startNode \notin walls
          /\ endNode \notin walls
          /\ IsWorld(PhaseWorld(algorithm, startNode, endNode, walls))
    /\ RecIdle

\* visualizeAlgorithm() is called
PhaseStart ==
    /\ obs.runs = 0
    /\ SetWorld(visualizeAlgorithm(World, World), "user")
    /\ UNCHANGED recVars

\* the next setTimeout callback is due and runs
PhaseFire ==
    /\ timers # {}
    /\ SetWorld(fireNext(World), "tick")
    /\ UNCHANGED recVars

PhaseNext == PhaseStart \/ PhaseFire

SpecPhases == PhaseInit /\ [][PhaseNext]_vars

----------------------------------------------------------------------------
(* generateRandomGraph, statement by statement *)

\* numNodes
GenNodes == 4

GenIds == 0..(GenNodes - 1)

\* Math.floor(Math.random() * 3) + 1
MaxConnections == 3

\* newNodes[i].connections.push(targetNode), and only the first push
pushConnectionOneWay(conns, i, targetNode) ==
    [k \in DOMAIN conns |-> IF k = i THEN Append(conns[k], targetNode) ELSE conns[k]]

\* newNodes[i].connections.push(targetNode), then the push of i to targetNode
\* if (!newNodes[targetNode].connections.includes(i))
pushConnection(conns, i, targetNode) ==
    [k \in DOMAIN conns |->
        IF k = i THEN Append(conns[k], targetNode)
        ELSE IF k = targetNode /\ ~InSeq(i, conns[k]) THEN Append(conns[k], i)
        ELSE conns[k]]

\* after the first loop: every node without connections, i = 0 at the test
\* of the second loop
GenInit ==
    /\ genRec = [conns |-> [k \in GenIds |-> <<>>], i |-> 0, j |-> 0,
                 numConnections |-> 0, targetNode |-> 0, pc |-> "outer"]
    /\ speedRec = SpeedRecIdle
    /\ pathRec = PathRecIdle
    /\ graphRec = GraphRecIdle
    /\ recAlg = "bubbleSort"
    /\ recInput = <<>>
    /\ recAnims = <<>>
    /\ recPos = -1
    /\ recArr = <<>>
    /\ recSO = <<>>
    /\ recThrew = FALSE
    /\ UIIdle

\* for (let i = 0; i < numNodes; i++) { const numConnections = ...
GenOuter ==
    /\ genRec # GenRecIdle
    /\ genRec.pc = "outer"
    /\ IF genRec.i < GenNodes
       THEN \E numConnections \in 1..MaxConnections :
               genRec' = [genRec EXCEPT !.numConnections = numConnections, !.j = 0,
                                        !.pc = "inner"]
       ELSE genRec' = [genRec EXCEPT !.pc = "done"]
    /\ UNCHANGED <<recAlg, recInput, recAnims, recPos, recArr, recSO, recThrew, pathRec, graphRec,
                   speedRec>>
    /\ UNCHANGED uiVars

\* for (let j = 0; j < numConnections; j++) { let targetNode = ...
GenInner ==
    /\ genRec # GenRecIdle
    /\ genRec.pc = "inner"
    /\ IF genRec.j < genRec.numConnections
       THEN \E targetNode \in GenIds :
               genRec' = [genRec EXCEPT !.targetNode = targetNode, !.pc = "while"]
       ELSE genRec' = [genRec EXCEPT !.i = @ + 1, !.pc = "outer"]
    /\ UNCHANGED <<recAlg, recInput, recAnims, recPos, recArr, recSO, recThrew, pathRec, graphRec,
                   speedRec>>
    /\ UNCHANGED uiVars

\* while (targetNode === i || connections.includes(targetNode)) { targetNode = ... }
\* and the two pushes after it
GenWhile ==
    /\ genRec # GenRecIdle
    /\ genRec.pc = "while"
    /\ IF genRec.targetNode = genRec.i \/ InSeq(genRec.targetNode, genRec.conns[genRec.i])
       THEN \E targetNode \in GenIds : genRec' = [genRec EXCEPT !.targetNode = targetNode]
       ELSE genRec' = [genRec EXCEPT
                          !.conns = pushConnection(@, genRec.i, genRec.targetNode),
                          !.j = @ + 1, !.pc = "inner"]
    /\ UNCHANGED <<recAlg, recInput, recAnims, recPos, recArr, recSO, recThrew, pathRec, graphRec,
                   speedRec>>
    /\ UNCHANGED uiVars

GenNext == GenOuter \/ GenInner \/ GenWhile

SpecGen == GenInit /\ [][GenNext]_vars

----------------------------------------------------------------------------
(* The sorting animation in progress, and the play/pause button *)

\* animateSort(animations) called from a render in which isSorting is true:
\* play was pressed, isSorting is set, and the check in animate() passes
SortingInProgress(algorithm, arr) ==
    LET run(w) == animateSort(w, Closure(w, w.obs.runs),
                              RecordSort(algorithm, w.sorting.array).anims)
    IN  run(playAt(MountedWorld("sorting", algorithm, [array |-> arr, nodes |-> <<>>]),
                   InitialSpeed))

PauseInit ==
    /\ \E algorithm \in SortAlgorithms, arr \in InputArrays :
          IsWorld(Canon(SortingInProgress(algorithm, arr)))
    /\ RecIdle

\* the play/pause button, at any moment
PausePress ==
    /\ home.isPlaying \/ CanStartRun
    /\ SetWorld(settle([World EXCEPT !.home = handlePlayPause(@)], depsOf(World), NoFresh),
                "user")
    /\ UNCHANGED recVars

PauseNext == PausePress \/ Tick

SpecPause == PauseInit /\ [][PauseNext]_vars

----------------------------------------------------------------------------
(* A run that plays to its end, and the buttons pressed after it *)

\* play was pressed and the play effect called visualizeAlgorithm(): every
\* callback it scheduled is pending
PathInProgress(algorithm, startNode, endNode, walls) ==
    LET run(w) == visualizeAlgorithm(w, w)
    IN  run([PhaseWorld(algorithm, startNode, endNode, walls) EXCEPT
                !.home = handlePlayPause(@)])

GraphInProgress(algorithm, nodes, startNode) ==
    LET run(w) == graphVisualizeAlgorithm(w, w)
    IN  run([ClickNode(MountedWorld("graphTraversal", algorithm,
                                    [array |-> <<>>, nodes |-> nodes]), startNode)
                EXCEPT !.home = handlePlayPause(@)])

\* isSorted, isPathFound or isComplete
Completed == sorting.isSorted \/ pathfinding.isPathFound \/ graph.isComplete

DoneInit ==
    /\ \/ \E algorithm \in SortAlgorithms, arr \in InputArrays :
             IsWorld(Canon(SortingInProgress(algorithm, arr)))
       \/ \E algorithm \in PathAlgorithms, startNode \in GridPos, endNode \in GridPos,
             walls \in {W \in WallSets : Cardinality(W) <= PhaseWalls} :
             /\ startNode # endNode
             /\ startNode \notin walls
             /\ endNode \notin walls
             /\ IsWorld(Canon(PathInProgress(algorithm, startNode, endNode, walls)))
       \/ \E algorithm \in GraphAlgorithms, nodes \in GeneratedGraphs, startNode \in NodeIds :
             IsWorld(Canon(GraphInProgress(algorithm, nodes, startNode)))
    /\ RecIdle

\* the play/pause button and the reset button, once the run has completed
DonePress == Completed /\ PressPlayPause

DoneReset == Completed /\ PressReset

DoneNext == Tick \/ DonePress \/ DoneReset

SpecDone == DoneInit /\ [][DoneNext]_vars

----------------------------------------------------------------------------
(* Claims about the sorting recorders *)

NonDecreasing(vs) == \A k \in 1..(Len(vs) - 1) : vs[k] <= vs[k + 1]

CountOf(vs, v) == Cardinality({k \in DOMAIN vs : vs[k] = v})

SameMultiset(vs, ws) ==
    /\ Len(vs) = Len(ws)
    /\ \A k \in DOMAIN vs : CountOf(vs, vs[k]) = CountOf(ws, vs[k])

RECURSIVE ReplayValueEvents(_, _, _)
ReplayValueEvents(arr, anims, n) ==
    IF n > Len(anims) THEN arr
    ELSE ReplayValueEvents(IF IsValueEvent(anims[n])
                           THEN applyAnimation(arr, anims[n]).arr ELSE arr,
                           anims, n + 1)

BubbleExampleInput == <<Bar(5), Bar(3), Bar(8), Bar(1)>>

BubbleExample ==
    ValuesOf(ReplayValueEvents(BubbleExampleInput,
                               bubbleSort(BubbleExampleInput).anims, 1)) = <<1, 3, 5, 8>>

\* C1: for each of the four recorders and every input array, applying all the
\* recorded swap and overwrite animations, in order, to a copy of the input
\* leaves the values in non-decreasing order; bubble sort on [5,3,8,1] ends
\* in [1,3,5,8].
C1_ReplaySorted ==
    /\ RecDone => NonDecreasing(ValuesOf(recSO))
    /\ BubbleExample

\* an unsorted input of full length whose replay has finished, for merge sort
C1_Witness ==
    /\ RecDone
    /\ recAlg = "mergeSort"
    /\ Len(recInput) = MaxLen
    /\ ~NonDecreasing(ValuesOf(recInput))
    /\ NonDecreasing(ValuesOf(recSO))

\* the replay of the complete animation list has ended: every animation went
\* through the switch, or the switch threw
ReplayEnded == recPos >= 0 /\ (recPos = Len(recAnims) \/ recThrew)

\* C2: for each of the four recorders and every input array, the multiset of
\* values after replaying the complete animation list equals the multiset of
\* values of the input.
C2_MultisetKept ==
    ReplayEnded => /\ ~recThrew
                   /\ SameMultiset(ValuesOf(recArr), ValuesOf(recInput))

----------------------------------------------------------------------------
(* Claims about playback *)

\* what the user sees of each dataset: the bars, the type of every cell, the
\* highlight state of every node
GridTypes ==
    [p \in Pos |-> IF Mounted(World, "pathfinding") THEN pathfinding.grid[p].type ELSE "none"]

NodeStates == [k \in DOMAIN graph.nodes |-> graph.nodes[k].state]

Visual == <<sorting.array, GridTypes, NodeStates>>

\* the events of one phase that were applied, in the order they were applied
PhaseLog(phase) == SelectSeq(obs.applied, LAMBDA a : a.phase = phase)

\* the log is the events 0, 1, ... of run 1, each once and in order
InOrder(log) == \A k \in DOMAIN log : log[k].i = k - 1 /\ log[k].run = 1

\* play was pressed once since the last reset and is still on (neither pause
\* nor reset followed), and no callback is pending any more
RanToTheEnd(category) ==
    /\ Mounted(World, category)
    /\ home.isPlaying
    /\ obs.runs = 1
    /\ timers = {}

\* C3: in the sorting visualizer, once play is pressed on a non-empty array and
\* neither pause nor reset follows, every recorded animation is applied in
\* order, each once, and then the run is marked complete (isSorting false,
\* isSorted true) and the completion toast is shown exactly once: a run that
\* has nothing pending any more has done all of that.
C3_SortRunCompletes ==
    (RanToTheEnd("sorting") /\ sorting.array # <<>>)
        => /\ ~sorting.isSorting
           /\ sorting.isSorted
           /\ obs.completions = 1
           /\ InOrder(obs.applied)
           /\ Len(obs.applied) =
                  Len(RecordSort(home.selectedAlgorithm,
                                 [k \in DOMAIN sorting.array |-> Bar(sorting.array[k].value)]).anims)

\* C4: in the pathfinding visualizer, once play is pressed and neither pause
\* nor reset follows, every cell of the visited order is marked, then the
\* shortest-path phase runs, and the run finishes (isVisualizing false,
\* isPathFound true) with the completion toast shown exactly once. (Stated
\* for the grid as initialized, where the end can be reached.)
C4_PathRunCompletes ==
    (RanToTheEnd("pathfinding") /\ obs.edits = 0)
        => /\ ~pathfinding.isVisualizing
           /\ pathfinding.isPathFound
           /\ obs.completions = 1
           /\ InOrder(PhaseLog("visit"))
           /\ InOrder(PhaseLog("path"))
           /\ Len(PhaseLog("visit")) > 0
           /\ Len(PhaseLog("path")) > 0
           /\ obs.applied = PhaseLog("visit") \o PhaseLog("path")

\* the visit order of the run: the recorder reads only the connections
VisitOrder ==
    IF home.selectedAlgorithm = "bfs" THEN runBFS(graph.nodes, graph.startNode)
    ELSE runDFS(graph.nodes, graph.startNode)

\* C5: in the graph traversal visualizer, once play is pressed with a start
\* node selected and neither pause nor reset follows, every node of the visit
\* order is animated in order, the last one included, and the run finishes
\* (isVisualizing false, isComplete true) with the completion toast shown
\* exactly once.
C5_GraphRunCompletes ==
    (RanToTheEnd("graphTraversal") /\ obs.errors = 0)
        => /\ ~graph.isVisualizing
           /\ graph.isComplete
           /\ obs.completions = 1
           /\ InOrder(obs.applied)
           /\ Len(obs.applied) = Len(VisitOrder)

\* pause was pressed after play, and neither play nor reset since
Paused(category) == Mounted(World, category) /\ ~home.isPlaying /\ ~home.isReset

\* C6: in the pathfinding and graph traversal visualizers, after pause is
\* pressed in the middle of a run no cell type and no node state changes until
\* play is pressed again: no callback that runs while paused changes them.
C6_PauseFreezes ==
    [][((Paused("pathfinding") \/ Paused("graphTraversal")) /\ obs'.last = "tick")
          => (GridTypes' = GridTypes /\ NodeStates' = NodeStates)]_vars

\* C7: pressing play after a pause continues with the event at the paused
\* cursor: between two resets no event of a phase is applied a second time
\* (the cursor does not return to 0).
C7_ResumeContinues ==
    \A j, k \in DOMAIN obs.applied :
        j < k => ~(obs.applied[j].phase = obs.applied[k].phase
                   /\ obs.applied[j].i = obs.applied[k].i)

C9_NoTickAfterReset ==
    [][obs'.last = "reset" => Visual' = Visual]_vars

\* the grid initializeGrid builds for the start and end of the state
FreshGrid ==
    [p \in Pos |-> createNode(pathfinding.startNode, pathfinding.endNode, p)]

\* a new session on a new dataset: run flags false, nothing highlighted, and
\* the grid as generated (no wall, nothing visited)
AfterReset ==
    /\ ~sorting.isSorting /\ ~sorting.isSorted
    /\ ~pathfinding.isVisualizing /\ ~pathfinding.isPathFound
    /\ ~graph.isVisualizing /\ ~graph.isComplete
    /\ \A k \in DOMAIN sorting.array : sorting.array[k].state = "default"
    /\ Mounted(World, "pathfinding") => pathfinding.grid = FreshGrid
    /\ \A k \in DOMAIN graph.nodes : graph.nodes[k].state = "default"

\* C10: pressing reset in any controller state (never played, running, paused,
\* completed) and in any of the three visualizers discards the session,
\* replaces the dataset by a freshly generated one and leaves no highlighting
\* and all run flags false.
C10_ResetClears ==
    [][obs'.last = "pressReset" => AfterReset']_vars

----------------------------------------------------------------------------
(* Claims about concurrent runs and editing *)

\* C11: callbacks of two different runs are never pending at the same time:
\* when a run starts, whatever an earlier run scheduled has been cancelled.
C11_OneRunPending ==
    \A t, u \in timers : t.closure.run = u.closure.run /\ t.stale = u.stale

\* a run is active
Running == sorting.isSorting \/ pathfinding.isVisualizing \/ graph.isVisualizing

\* the dataset: the bars, the cells with the start and end positions, the
\* nodes with the start node
Dataset ==
    <<sorting.array, pathfinding.grid, pathfinding.startNode, pathfinding.endNode,
      graph.nodes, graph.startNode>>

\* C12: while a run is active (isSorting, or isVisualizing of the pathfinding
\* or graph visualizer) every dataset edit is ignored: a press or a drag on the
\* grid, a press or a drag on the canvas, a new graph and a resize leave the
\* dataset as it is.
C12_EditsIgnoredWhileRunning ==
    [][(Running /\ obs'.last = "edit") => Dataset' = Dataset]_vars

\* a press on the grid came while the pathfinding run was being animated
C12_Witness ==
    /\ Mounted(World, "pathfinding")
    /\ pathfinding.isVisualizing
    /\ obs.applied # <<>>
    /\ obs.edits = 1
    /\ obs.last = "edit"

----------------------------------------------------------------------------
(* Claims about the pathfinding recorders *)

Adjacent(p, q) == Abs(p[1] - q[1]) + Abs(p[2] - q[2]) = 1

\* the cells a path can go through
Free(grid) == {p \in DOMAIN grid : grid[p].type # "wall"}

\* the cells at distance 0, 1, 2, ... from the frontier, walls impassable
RECURSIVE Levels(_, _, _)
Levels(free, seen, frontier) ==
    IF frontier = {} THEN <<>>
    ELSE <<frontier>> \o
         Levels(free, seen \cup frontier,
                {q \in free \ (seen \cup frontier) : \E p \in frontier : Adjacent(p, q)})

LevelsFrom(grid, startNode) == Levels(Free(grid), {}, {startNode} \cap Free(grid))

ReachableIn(levels) == UNION {levels[k] : k \in DOMAIN levels}

\* the true distance of a reachable cell
DistanceIn(levels, p) == (CHOOSE k \in DOMAIN levels : p \in levels[k]) - 1

PathLevels == LevelsFrom(pathRec.grid, pathRec.startNode)

EndReachable == pathRec.endNode \in ReachableIn(PathLevels)

NoDuplicates(seq) == \A j, k \in DOMAIN seq : j # k => seq[j] # seq[k]

\* C13: for every grid, start and end for which a path exists, the shortest
\* path derived after dijkstra and the one derived after aStar, each run on a
\* copy of the same fresh grid, have equal length.
C13_EqualPathLength ==
    (pathRec # PathRecIdle /\ pathRec.dijkstra.ran /\ pathRec.aStar.ran /\ EndReachable)
        => Len(pathRec.dijkstra.path) = Len(pathRec.aStar.path)

\* both recorders ran on a grid with walls where the end is reachable by a
\* detour only, and they visited different numbers of cells
C13_Witness ==
    /\ pathRec # PathRecIdle /\ pathRec.dijkstra.ran /\ pathRec.aStar.ran /\ EndReachable
    /\ Len(pathRec.aStar.path) > heuristic(pathRec.startNode, pathRec.endNode) + 1
    /\ Len(pathRec.dijkstra.visited) # Len(pathRec.aStar.visited)

SetOf(seq) == {seq[k] : k \in DOMAIN seq}

\* C14: on a fresh grid the visited order of dijkstra lists cells in
\* non-decreasing true distance from the start, contains no wall and no cell
\* twice, and stops early: with the end reachable the end cell is its last
\* entry, with the end unreachable it holds exactly the non-wall cells
\* reachable from the start.
C14_DijkstraVisitedOrder ==
    (pathRec # PathRecIdle /\ pathRec.dijkstra.ran)
        => LET ok(v, levels) ==
                   /\ \A k \in DOMAIN v : v[k] \in ReachableIn(levels)
                   /\ \A k \in DOMAIN v : pathRec.grid[v[k]].type # "wall"
                   /\ \A k \in 1..(Len(v) - 1) :
                          DistanceIn(levels, v[k]) <= DistanceIn(levels, v[k + 1])
                   /\ NoDuplicates(v)
                   /\ IF pathRec.endNode \in ReachableIn(levels)
                      THEN v # <<>> /\ v[Len(v)] = pathRec.endNode
                      ELSE SetOf(v) = ReachableIn(levels)
           IN  ok(pathRec.dijkstra.visited, PathLevels)

\* dijkstra ran on a grid with walls on which the end is cut off and some cells
\* at distance 2 or more are reachable
C14_Witness ==
    /\ pathRec # PathRecIdle /\ pathRec.dijkstra.ran
    /\ ~EndReachable
    /\ Len(PathLevels) >= 3
    /\ \E p \in GridPos : pathRec.grid[p].type = "wall"

\* dijkstra ran on a grid with walls, and stopped at the end before it had
\* visited every reachable cell
C14_WitnessEarlyStop ==
    /\ pathRec # PathRecIdle /\ pathRec.dijkstra.ran
    /\ EndReachable
    /\ SetOf(pathRec.dijkstra.visited) # ReachableIn(PathLevels)

\* a shortest path from the start to the end: 4-adjacent steps through
\* non-wall cells, as many cells as the true distance plus one
IsShortestPath(path, levels) ==
    /\ path # <<>>
    /\ path[1] = pathRec.startNode
    /\ path[Len(path)] = pathRec.endNode
    /\ \A k \in 1..(Len(path) - 1) : Adjacent(path[k], path[k + 1])
    /\ \A k \in DOMAIN path : pathRec.grid[path[k]].type # "wall"
    /\ Len(path) = DistanceIn(levels, pathRec.endNode) + 1

\* C15: when the end cell is reachable on a fresh grid, the list
\* getNodesInShortestPathOrder returns after dijkstra or aStar begins with the
\* start cell, ends with the end cell, has every consecutive pair 4-adjacent,
\* contains no wall and has length true shortest distance plus one.
C15_ShortestPath ==
    (pathRec # PathRecIdle /\ EndReachable)
        => \A algorithm \in PathAlgorithms :
              pathRec[algorithm].ran => IsShortestPath(pathRec[algorithm].path, PathLevels)

\* both recorders ran on a grid with walls where the shortest path is a detour
C15_Witness ==
    /\ pathRec # PathRecIdle /\ pathRec.dijkstra.ran /\ pathRec.aStar.ran /\ EndReachable
    /\ Len(pathRec.dijkstra.path) > heuristic(pathRec.startNode, pathRec.endNode) + 1
    /\ Len(pathRec.dijkstra.path) >= 5

\* C16: when the end cell is unreachable from the start, the shortest-path
\* phase is empty: the shortest-path list has no cells.
C16_NoPathWhenUnreachable ==
    (pathRec # PathRecIdle /\ ~EndReachable)
        => \A algorithm \in PathAlgorithms :
              pathRec[algorithm].ran => pathRec[algorithm].path = <<>>

----------------------------------------------------------------------------
(* Claims about the graph traversal recorders *)

\* the nodes at distance 0, 1, 2, ... from the frontier
RECURSIVE GraphLevels(_, _, _)
GraphLevels(nodes, seen, frontier) ==
    IF frontier = {} THEN <<>>
    ELSE <<frontier>> \o
         GraphLevels(nodes, seen \cup frontier,
                     {q \in {nodes[k].id : k \in DOMAIN nodes} \ (seen \cup frontier) :
                         \E p \in frontier : InSeq(q, NodeAt(nodes, p).connections)})

RecLevels == GraphLevels(graphRec.nodes, {}, {graphRec.startNode})

\* the graph under check is the path graph 0-1-2
IsPathGraph012 ==
    /\ Len(graphRec.nodes) = 3
    /\ graphRec.nodes[1].connections = <<1>>
    /\ SetOf(graphRec.nodes[2].connections) = {0, 2}
    /\ graphRec.nodes[3].connections = <<1>>

\* C17: for every undirected graph and start node, the visit order of runBFS
\* lists nodes in non-decreasing graph distance from the start; the path
\* graph 0-1-2 from start 0 gives [0,1,2].
C17_BfsDistanceOrder ==
    (graphRec # GraphRecIdle /\ "bfs" \in graphRec.ran)
        => LET ok(v, levels) ==
                   /\ \A k \in DOMAIN v : v[k] \in ReachableIn(levels)
                   /\ \A k \in 1..(Len(v) - 1) :
                          DistanceIn(levels, v[k]) <= DistanceIn(levels, v[k + 1])
                   /\ (IsPathGraph012 /\ graphRec.startNode = 0) => v = <<0, 1, 2>>
           IN  ok(graphRec.bfs, RecLevels)

\* runBFS ran on a graph with nodes at distance 2 and two or more at distance 1
C17_Witness ==
    /\ graphRec # GraphRecIdle /\ "bfs" \in graphRec.ran
    /\ Len(RecLevels) >= 3
    /\ Cardinality(RecLevels[2]) >= 2

\* runBFS ran on the path graph 0-1-2 from node 0
C17_WitnessPathGraph ==
    /\ graphRec # GraphRecIdle /\ "bfs" \in graphRec.ran
    /\ IsPathGraph012 /\ graphRec.startNode = 0

\* C18: for every graph and start node, the visit order of runBFS and the one
\* of runDFS each contain every node reachable from the start exactly once and
\* no unreachable node.
C18_VisitReachableOnce ==
    graphRec # GraphRecIdle
        => \A algorithm \in graphRec.ran :
              /\ SetOf(graphRec[algorithm]) = ReachableIn(RecLevels)
              /\ NoDuplicates(graphRec[algorithm])

\* both ran on a graph where three nodes can be reached and one cannot
C18_Witness ==
    /\ graphRec # GraphRecIdle /\ graphRec.ran = GraphAlgorithms
    /\ Cardinality(ReachableIn(RecLevels)) = 3
    /\ Len(graphRec.nodes) = 4

\* both ran on a connected graph and visited it in different orders
C18_WitnessOrdersDiffer ==
    /\ graphRec # GraphRecIdle /\ graphRec.ran = GraphAlgorithms
    /\ Cardinality(ReachableIn(RecLevels)) = Len(graphRec.nodes)
    /\ graphRec.bfs # graphRec.dfs

----------------------------------------------------------------------------
(* Claims about runs that cannot start *)

\* play is pressed: isPlaying goes from false to true
PlayPressed == ~home.isPlaying /\ home'.isPlaying

\* C19: pressing play in the graph traversal visualizer while no start node
\* is selected reports the error to the user and does not start a run:
\* isVisualizing stays false, no node state changes and no callback is
\* scheduled.
C19_NoStartNodeError ==
    [][(PlayPressed /\ Mounted(World, "graphTraversal") /\ graph.startNode = NoStartNode)
          => /\ obs'.errors = toastSelectStart(World).obs.errors
             /\ obs'.errors > 0
             /\ ~graph'.isVisualizing
             /\ obs'.runs = obs.runs
             /\ NodeStates' = NodeStates
             /\ timers' \subseteq timers]_vars

\* play was pressed with no start node selected
C19_Witness ==
    /\ Mounted(World, "graphTraversal")
    /\ home.isPlaying
    /\ graph.startNode = NoStartNode
    /\ obs.errors = 1
    /\ obs.last = "user"

\* a recorder run on the empty array records no animation
EmptyInputRecordsNothing ==
    (recPos >= 0 /\ recInput = <<>>) => recAnims = <<>>

\* C20: for a zero-length array each of the four sorting recorders returns an
\* empty event sequence and playback of it completes immediately: no event
\* is applied, the run is marked complete (isSorting false, isSorted true) and
\* the completion notification is emitted.
C20_EmptyArrayCompletes ==
    (/\ Mounted(World, "sorting") /\ home.isPlaying /\ obs.runs = 1 /\ timers = {}
     /\ sorting.array = <<>>)
        => /\ RecordSort(home.selectedAlgorithm, sorting.array).anims = <<>>
           /\ obs.applied = <<>>
           /\ ~sorting.isSorting
           /\ sorting.isSorted
           /\ obs.completions = 1

----------------------------------------------------------------------------
(* Claims about the grid a pathfinding run works on *)

\* what the recorders compute with, cell by cell
RecorderFields ==
    [p \in DOMAIN pathfinding.grid |->
        [distance     |-> pathfinding.grid[p].distance,
         isVisited    |-> pathfinding.grid[p].isVisited,
         previousNode |-> pathfinding.grid[p].previousNode,
         g |-> pathfinding.grid[p].g,
         h |-> pathfinding.grid[p].h,
         f |-> pathfinding.grid[p].f]]

\* visualizeAlgorithm has run: a pathfinding run starts
PathRunStarts == ~pathfinding.isVisualizing /\ pathfinding'.isVisualizing

\* C21: running the dijkstra or aStar recorder leaves the grid it was given
\* unchanged: after the call every cell of the visualizer's grid has the same
\* distance, isVisited, previousNode, g, h and f as before the call.
C21_RecorderKeepsGrid ==
    [][PathRunStarts => RecorderFields' = RecorderFields]_vars

----------------------------------------------------------------------------
(* Claims about timing *)

\* the callbacks that apply one event each
EventKinds == {"visit", "path", "graphStep"}

\* 101 - speed, for the speed the run was started with
TickInterval(t) == (MaxSpeed + 1) - t.closure.speed

\* t and u are callbacks of the same run, scheduled together
SameRun(t, u) == t.closure = u.closure /\ t.stale = u.stale

\* C22: in every visualizer the delay between two consecutive applied events
\* of a run is 101 - speed time units (between 1 and 100): two pending
\* callbacks of one run that apply events i and i + 1 are due 101 - speed
\* apart, the shortest-path phase is due 101 - speed after the last visited
\* cell, and the timeout that leads to the next sorting event was set to
\* 101 - speed.
C22_TickInterval ==
    /\ \A t \in timers : TickInterval(t) \in 1..100
    /\ \A t, u \in timers :
          (t.kind \in EventKinds /\ u.kind = t.kind /\ SameRun(t, u) /\ u.i = t.i + 1)
              => u.rem - t.rem = TickInterval(t)
    /\ \A t, u \in timers :
          (t.kind = "visit" /\ u.kind = "pathTrigger" /\ SameRun(t, u) /\ u.i = t.i + 1)
              => u.rem - t.rem = TickInterval(t)
    /\ \A t \in timers : t.kind = "sortTimeout" => t.rem <= TickInterval(t)

\* the playback has nothing pending any more
Finished(r) == r.played /\ r.world.timers = {}

IsPrefix(a, b) == Len(a) <= Len(b) /\ SubSeq(b, 1, Len(a)) = a

\* the visual state and the run flags playback ends in
FinalOf(w) ==
    <<VisualOf(w), w.sorting.isSorting, w.sorting.isSorted, w.pathfinding.isVisualizing,
      w.pathfinding.isPathFound, w.graph.isVisualizing, w.graph.isComplete,
      w.obs.completions>>

\* C23: for a fixed dataset and algorithm, uninterrupted runs that differ only
\* in the speed produce the same sequence of visual states, observed right
\* after each applied event, and the same final state: at any moment the
\* sequence of one is a prefix of the sequence of the other, and once both
\* have nothing pending the sequences and the final states are equal.
C23_SpeedChangesTimingOnly ==
    speedRec # SpeedRecIdle
        => \A s1, s2 \in ComparedSpeeds :
              LET same(r1, r2) ==
                      /\ IsPrefix(r1.visuals, r2.visuals) \/ IsPrefix(r2.visuals, r1.visuals)
                      /\ (Finished(r1) /\ Finished(r2))
                            => /\ r1.visuals = r2.visuals
                               /\ FinalOf(r1.world) = FinalOf(r2.world)
              IN  same(speedRec.runs[s1], speedRec.runs[s2])

\* the slowest and the fastest playback of a pathfinding run have both ended,
\* after three applied events that left the grid showing a visited cell
C23_Witness ==
    /\ speedRec # SpeedRecIdle
    /\ Finished(speedRec.runs[MinSpeed])
    /\ Finished(speedRec.runs[MaxSpeed])
    /\ Mounted(speedRec.start, "pathfinding")
    /\ Len(speedRec.runs[MinSpeed].visuals) >= 3
    /\ VisualOf(speedRec.runs[MaxSpeed].world) # VisualOf(speedRec.start)

----------------------------------------------------------------------------
(* Claims about the two phases of a pathfinding animation *)

\* the grid as it was before the run: nothing visited, no path, the recorder
\* fields as createNode sets them
BeforeRun(grid, startNode, endNode) ==
    [p \in DOMAIN grid |->
        [createNode(startNode, endNode, p) EXCEPT
            !.type = IF grid[p].type \in {"visited", "path"} THEN "empty" ELSE grid[p].type]]

\* the visited order the recorder of the run returned
VisitedOrder ==
    RunRecorder(home.selectedAlgorithm,
                BeforeRun(pathfinding.grid, pathfinding.startNode, pathfinding.endNode),
                pathfinding.startNode, pathfinding.endNode).visited

\* the shortest-path phase has begun
PathPhaseBegun ==
    \/ PhaseLog("path") # <<>>
    \/ \E t \in timers : t.kind = "path"

----------------------------------------------------------------------------
(* Claims about generated graphs *)

\* undirected and simple: connections are mutual, no node is connected to
\* itself, no connections list holds a node twice
UndirectedSimple(conns) ==
    /\ \A i, j \in DOMAIN conns : InSeq(j, conns[i]) <=> InSeq(i, conns[j])
    /\ \A i \in DOMAIN conns : ~InSeq(i, conns[i])
    /\ \A i \in DOMAIN conns : NoDuplicates(conns[i])

\* C25: every graph produced by generateRandomGraph is undirected and simple:
\* for all nodes i and j, j is in connections(i) exactly when i is in
\* connections(j), no node is connected to itself, and no connections list
\* contains a duplicate.
C25_GeneratedGraphSimple ==
    /\ (genRec # GenRecIdle /\ genRec.pc = "done") => UndirectedSimple(genRec.conns)
    /\ \A g \in GeneratedGraphs :
          UndirectedSimple([i \in NodeIds |-> NodeAt(g, i).connections])

\* a graph was produced in which the last node is connected to every other
\* node and the first node to the last only
C25_Witness ==
    /\ genRec # GenRecIdle
    /\ genRec.pc = "done"
    /\ Len(genRec.conns[GenNodes - 1]) = GenNodes - 1
    /\ genRec.conns[0] = <<GenNodes - 1>>

----------------------------------------------------------------------------
(* Claims about pausing the sorting animation *)

\* a timeout or an animation frame of the sorting animation is pending
SortCallbackPending == \E t \in timers : t.kind \in {"sortTimeout", "sortFrame"}

----------------------------------------------------------------------------
(* Claims about quicksort *)

\* what partition leaves of range [low, high] of arr: the pivot arr[high] at
\* the index returned, smaller values before it, the others behind it, and
\* the bars outside the range where they were
Partitioned(arr, low, high, r) ==
    /\ r.pivotIndex \in low..high
    /\ Len(r.arr) = Len(arr)
    /\ At(r.arr, r.pivotIndex).value = At(arr, high).value
    /\ \A k \in low..(r.pivotIndex - 1) : At(r.arr, k).value < At(arr, high).value
    /\ \A k \in (r.pivotIndex + 1)..high : At(r.arr, k).value >= At(arr, high).value
    /\ \A k \in 0..(Len(arr) - 1) : (k < low \/ k > high) => At(r.arr, k) = At(arr, k)
    /\ SameMultiset(ValuesOf(r.arr), ValuesOf(arr))

\* the calls of partition a quickSort recording shows: each call records
\* pivot(high), then compare(low, high) first, and sorted(pivotIndex) right
\* before its reset-pivot
RECURSIVE PartitionCalls(_, _)
PartitionCalls(anims, k) ==
    IF k > Len(anims) THEN <<>>
    ELSE IF anims[k].type = "pivot"
    THEN LET m == CHOOSE m \in (k + 1)..Len(anims) :
                      /\ anims[m].type = "reset-pivot"
                      /\ \A q \in (k + 1)..(m - 1) : anims[q].type # "reset-pivot"
         IN  <<[low |-> anims[k + 1].indices[1], high |-> anims[k].indices[1],
                pivotIndex |-> anims[m - 1].indices[1]]>> \o PartitionCalls(anims, m + 1)
    ELSE PartitionCalls(anims, k + 1)

\* the first call is on the whole array, every other one on the range left
\* or right of the pivot of an earlier call
RecursionOnSubranges(calls, n) ==
    /\ n >= 2 => (calls # <<>> /\ calls[1].low = 0 /\ calls[1].high = n - 1)
    /\ \A c \in 2..Len(calls) :
          \E d \in 1..(c - 1) :
             \/ calls[c].low = calls[d].low /\ calls[c].high = calls[d].pivotIndex - 1
             \/ calls[c].low = calls[d].pivotIndex + 1 /\ calls[c].high = calls[d].high

\* C27: quicksort's partition of a range [low, high] uses the last element as
\* pivot and returns an index p in [low, high] such that afterwards the pivot
\* value is at p, every value in [low, p-1] is strictly less than it and
\* every value in [p+1, high] is greater than or equal to it; the recursion
\* is then on [low, p-1] and [p+1, high] only.
C27_Partition ==
    (recPos >= 0 /\ recAlg = "quickSort")
        => /\ \A low, high \in 0..(Len(recInput) - 1) :
                 low <= high => Partitioned(recInput, low, high,
                                            partition(recInput, low, high, <<>>))
           /\ RecursionOnSubranges(PartitionCalls(recAnims, 1), Len(recInput))

\* quickSort recorded an array of full length that holds a value equal to the
\* pivot and a smaller one behind it
C27_Witness ==
    /\ recPos >= 0 /\ recAlg = "quickSort"
    /\ Len(recInput) = MaxLen
    /\ recInput[1].value = recInput[MaxLen].value
    /\ recInput[2].value < recInput[MaxLen].value

\* quickSort recorded an array on which partition was called on a sub-range
\* too, and that call swapped
C27_WitnessRecursion ==
    /\ recPos >= 0 /\ recAlg = "quickSort"
    /\ Len(PartitionCalls(recAnims, 1)) >= 2
    /\ PartitionCalls(recAnims, 1)[2].pivotIndex # PartitionCalls(recAnims, 1)[2].high

----------------------------------------------------------------------------
(* Claims about the recorded animations *)

\* C28: for every input array of length n >= 1, every index carried by any
\* animation the four sorting recorders emit (indices, or index for pivot,
\* reset-pivot and overwrite) lies in 0..n-1.
C28_IndicesInRange ==
    (recPos >= 0 /\ Len(recInput) >= 1)
        => \A k \in DOMAIN recAnims :
              \A q \in DOMAIN recAnims[k].indices :
                 recAnims[k].indices[q] \in 0..(Len(recInput) - 1)

\* C29: for every input array of length n >= 1 and each of the four sorting
\* algorithms, applying the complete animation list in order to the initial
\* array (all bars 'default') leaves every bar in highlight state 'sorted'.
C29_AllBarsSorted ==
    (ReplayEnded /\ Len(recInput) >= 1)
        => /\ ~recThrew
           /\ \A k \in DOMAIN recArr : recArr[k].state = "sorted"

----------------------------------------------------------------------------
(* Claims about editing the pathfinding grid *)

MarkersInPlace(pf) ==
    /\ pf.grid # <<>>
    /\ {p \in Pos : pf.grid[p].type = "start"} = {pf.startNode}
    /\ {p \in Pos : pf.grid[p].type = "end"} = {pf.endNode}
    /\ pf.startNode # pf.endNode

GridEdit ==
    /\ Mounted(World, "pathfinding")
    /\ ~pathfinding.isVisualizing
    /\ ~home.isPlaying
    /\ obs'.last = "edit"

\* C30: a wall toggle or a start/end drag performed while no run is active on
\* a grid with exactly one 'start' cell at startNode, exactly one 'end' cell at
\* endNode and startNode # endNode leaves a grid with the same three properties.
C30_MarkersKept ==
    [][(GridEdit /\ MarkersInPlace(pathfinding)) => MarkersInPlace(pathfinding')]_vars

----------------------------------------------------------------------------
(* Claims about the termination of generateRandomGraph *)

\* the nodes the while loop of generateRandomGraph lets through for node i
FreeTargets(conns, i) == {t \in GenIds : t # i /\ ~InSeq(t, conns[i])}

\* C31: generateRandomGraph terminates for every outcome of its random
\* choices: whenever the target-selection loop runs for node i, some node is
\* neither i nor already connected to i, and when the loops have ended every
\* node has at least one connection.
C31_TargetAlwaysFound ==
    genRec # GenRecIdle
        => /\ genRec.pc = "while" => FreeTargets(genRec.conns, genRec.i) # {}
           /\ genRec.pc = "done" => \A k \in GenIds : Len(genRec.conns[k]) >= 1

----------------------------------------------------------------------------
(* Claims about the cells a pathfinding playback marks *)

KeptTypes == {"wall", "start", "end"}

\* C32: during an uninterrupted pathfinding run no step of the playback changes
\* the type of a wall, of the start cell or of the end cell, in the visited
\* phase and in the shortest-path phase alike.
C32_WallsAndMarkersKeepType ==
    [][\A p \in DOMAIN pathfinding.grid :
          pathfinding.grid[p].type \in KeptTypes
              => pathfinding.grid'[p].type = pathfinding.grid[p].type]_vars

\* a run completed on a grid with a wall the recorder reached (it gave the wall
\* a previousNode), with cells marked 'path' and cells left 'visited'
C32_Witness ==
    /\ pathfinding.isPathFound
    /\ \E p \in DOMAIN pathfinding.grid :
          /\ pathfinding.grid[p].type = "wall"
          /\ pathfinding.grid[p].previousNode # NoNode
    /\ \E p \in DOMAIN pathfinding.grid : pathfinding.grid[p].type = "path"
    /\ \E p \in DOMAIN pathfinding.grid : pathfinding.grid[p].type = "visited"
    /\ pathfinding.grid[pathfinding.startNode].type = "start"
    /\ pathfinding.grid[pathfinding.endNode].type = "end"

----------------------------------------------------------------------------
(* Claims about the play button after a completed run *)

C33_WitnessSorting ==
    sorting.isSorted /\ home.isPlaying /\ obs.last = "user" /\ Len(sorting.array) = MaxLen

C33_WitnessGraph ==
    graph.isComplete /\ home.isPlaying /\ obs.last = "user"

----------------------------------------------------------------------------
(* Claims about selecting the start node while play is pressed *)

\* play is pressed in the graph traversal visualizer, no start node is
\* selected and no traversal is running or complete
PlayingWithoutStart ==
    /\ Mounted(World, "graphTraversal")
    /\ home.isPlaying
    /\ graph.startNode = NoStartNode
    /\ ~graph.isVisualizing
    /\ ~graph.isComplete

\* C34: in the graph traversal visualizer, if play was pressed with no start
\* node selected and has not been released since, the selection of a start
\* node starts the traversal in the same step, without a further play press:
\* a run is counted, isVisualizing is set, the selected node is marked as the
\* start and the first step of the traversal is scheduled.
C34_SelectingStartStartsRun ==
    [][(PlayingWithoutStart /\ obs'.last = "edit" /\ graph'.startNode # NoStartNode)
          => /\ home' = home
             /\ graph'.isVisualizing
             /\ obs'.runs = obs.runs + 1
             /\ \E t \in timers' : t.kind = "graphStep" /\ t.i = 0
                                   /\ t.list[1] = graph'.startNode]_vars

\* the traversal was started by the selection of the start node, after the
\* toast that asked for one
C34_Witness ==
    /\ Mounted(World, "graphTraversal")
    /\ home.isPlaying
    /\ obs.last = "edit"
    /\ obs.errors >= 1
    /\ obs.runs = 1
    /\ graph.isVisualizing
    /\ graph.startNode # NoStartNode
    /\ obs.applied = <<>>

----------------------------------------------------------------------------
(* Claims about the page controller *)

\* the step is a press of reset, a change of algorithm or a change of category
ResetOrChange ==
    \/ obs'.last = "pressReset"
    \/ home'.selectedAlgorithm # home.selectedAlgorithm
    \/ home'.selectedCategory # home.selectedCategory

\* the step is a press of play/pause
PlayPauseToggled ==
    /\ ~ResetOrChange
    /\ home'.isPlaying # home.isPlaying

\* C35: in every reachable state of the page controller isPlaying and isReset
\* are not both true; a press of reset, a change of algorithm and a change of
\* category each leave isPlaying false and isReset true; and a press of play
\* while isReset is true sets isReset to false and isPlaying to true.
C35_PlayingAndReset ==
    /\ [](~(home.isPlaying /\ home.isReset))
    /\ [][ResetOrChange => (~home'.isPlaying /\ home'.isReset)]_vars
    /\ [][(PlayPauseToggled /\ home.isReset) => (~home'.isReset /\ home'.isPlaying)]_vars

\* play was pressed for the first time after a change of category and of
\* algorithm
C35_Witness ==
    /\ home.selectedCategory = "graphTraversal"
    /\ home.selectedAlgorithm = "dfs"
    /\ home.isPlaying
    /\ ~home.isReset
    /\ obs.last = "user"
    /\ obs.runs = 0

====
